---- MODULE Spec2Model ----
(***************************************************************************)
(* Cleansing / resampling engine of scripts/3_cleansing/cleansing_resample *)
(* .py: the per-pair binning state machine (process_pair) and the run      *)
(* around it (main, run_pairs_parallel, worker_process_loop).              *)
(*                                                                         *)
(* Conventions.                                                            *)
(*  - Python None / SQL NULL is the empty tuple None; a present value v is *)
(*    the 1-tuple <<v>> (Some(v)).                                         *)
(*  - A price is a float in the code. The model keeps it as an exact       *)
(*    fraction <<num, den>> in lowest terms with den > 0, so that the      *)
(*    interpolation arithmetic is computed as the code computes it; float  *)
(*    rounding is not modelled.                                            *)
(*  - The ingestion_ts_utc text of tick number i of a stream is            *)
(*    represented by i (the code only carries the text, it never           *)
(*    converts it).                                                        *)
(*  - The tick stream of a pair is the cursor's result, ordered by         *)
(*    (ingestion_ts_utc, id). The producers write one ISO-8601 UTC format, *)
(*    for which text order is time order, so the parseable ticks of a      *)
(*    stream have non-decreasing epochs; rows whose text strftime cannot   *)
(*    parse (ts_epoch_s NULL) may sit anywhere in the stream.              *)
(*  - process_pair is invariant under a shift of all epochs by a multiple  *)
(*    of bin_seconds, so the streams of the model start in bucket 0.       *)
(***************************************************************************)
EXTENDS Integers, Sequences, FiniteSets, Bags, TLC

VARIABLES
    ticks,      \* the pair's cursor rows, in cursor order
    cfg,        \* the command-line configuration of the run
    profile,    \* the pair's PairProfile
    pp,         \* the locals of process_pair
    source,     \* market_ticks of the input DB: the stream of every pair
    run,        \* the executions of main: the current one and their outcomes
    store       \* the output DB

vars == <<ticks, cfg, profile, pp, source, run, store>>

-----------------------------------------------------------------------------
(* Bounds of the model *)

MaxTicks == 3
MaxEpoch == 5

(* Values the inputs are drawn from *)
Prices == {10, 20}
BinSecondsChoices == {1, 2}
MaxForwardFillChoices == {0, 2, 3}
StaleAfterChoices == {1, 2}
FillModes == {"forward_fill", "interpolation"}
BatchSizeChoices == {2}

-----------------------------------------------------------------------------
(* Optional values and exact fractions *)

None == << >>
Some(v) == <<v>>
IsNone(o) == o = << >>
Val(o) == o[1]

Abs(n) == IF n < 0 THEN -n ELSE n
Min(a, b) == IF a <= b THEN a ELSE b
Max(a, b) == IF a >= b THEN a ELSE b

RECURSIVE GCD(_, _)
GCD(a, b) == IF b = 0 THEN a ELSE GCD(b, a % b)

\* n / d in lowest terms, d > 0
Frac(n, d) ==
    LET g == GCD(Abs(n), d)
    IN  IF g = 0 THEN <<0, 1>> ELSE <<n \div g, d \div g>>

FracOfInt(n) == <<n, 1>>
FracAdd(x, y) == Frac(x[1] * y[2] + y[1] * x[2], x[2] * y[2])
FracMul(x, y) == Frac(x[1] * y[1], x[2] * y[2])

-----------------------------------------------------------------------------
(* floor_epoch *)

\* variant: the quotient is rounded towards zero
floor_epoch_truncating(epoch_s, bin_seconds) ==
    IF epoch_s >= 0 THEN (epoch_s \div bin_seconds) * bin_seconds
    ELSE 0 - (((0 - epoch_s) \div bin_seconds) * bin_seconds)

floor_epoch(epoch_s, bin_seconds) == (epoch_s \div bin_seconds) * bin_seconds

-----------------------------------------------------------------------------
(* The source: tick rows and load_pair_profiles *)

\* A cursor row of process_pair: ts_epoch_s is None when strftime cannot parse
\* the timestamp text; numeric is FALSE when effective_price holds text that
\* float() rejects.
TickRows ==
    [ts_epoch_s : {Some(e) : e \in 0..MaxEpoch} \cup {None},
     effective_price : Prices, numeric : {TRUE}]
    \cup
    [ts_epoch_s : {Some(e) : e \in 0..MaxEpoch} \cup {None},
     effective_price : {0}, numeric : {FALSE}]

ParseableIdx(stream) == {i \in 1..Len(stream) : ~IsNone(stream[i].ts_epoch_s)}

\* ORDER BY ingestion_ts_utc, id
TextOrdered(stream) ==
    \A i, j \in ParseableIdx(stream) :
        i < j => Val(stream[i].ts_epoch_s) <= Val(stream[j].ts_epoch_s)

SetMin(S) == CHOOSE x \in S : \A y \in S : x <= y
SetMax(S) == CHOOSE x \in S : \A y \in S : x >= y

\* MIN / MAX / COUNT(*) of the pair's rows; a pair whose rows all have an
\* unparseable timestamp gets no profile (None)
load_pair_profile(stream) ==
    LET epochs == {Val(stream[i].ts_epoch_s) : i \in ParseableIdx(stream)}
    IN  IF epochs = {} THEN None
        ELSE Some([min_epoch_s |-> SetMin(epochs),
                   max_epoch_s |-> SetMax(epochs),
                   source_tick_count |-> Len(stream)])

-----------------------------------------------------------------------------
(* process_pair: the binning engine *)

\* variant: the sweep ends one bucket after the one of the last tick
process_pair_init_ends_later(prof, c) ==
    [status |-> "running",
     next_row |-> 1,
     end_epoch_s |-> floor_epoch(prof.max_epoch_s, c.bin_seconds) + c.bin_seconds,
     current_bin_epoch_s |-> floor_epoch(prof.min_epoch_s, c.bin_seconds),
     current_bin_tick_count |-> 0,
     current_bin_last_price |-> None,
     current_bin_last_ts_utc |-> None,
     current_bin_last_ts_epoch_s |-> None,
     last_known_price |-> None,
     last_known_ts_utc |-> None,
     last_known_ts_epoch_s |-> None,
     rows_to_emit |-> << >>,
     emitted |-> << >>,
     bins_total |-> 0,
     bins_observed |-> 0,
     bins_forward_fill |-> 0,
     bins_interpolation |-> 0,
     bins_missing |-> 0,
     summary |-> None]

\* the locals of process_pair before the cursor loop
process_pair_init(prof, c) ==
    [status |-> "running",
     next_row |-> 1,
     end_epoch_s |-> floor_epoch(prof.max_epoch_s, c.bin_seconds),
     current_bin_epoch_s |-> floor_epoch(prof.min_epoch_s, c.bin_seconds),
     current_bin_tick_count |-> 0,
     current_bin_last_price |-> None,
     current_bin_last_ts_utc |-> None,
     current_bin_last_ts_epoch_s |-> None,
     last_known_price |-> None,
     last_known_ts_utc |-> None,
     last_known_ts_epoch_s |-> None,
     rows_to_emit |-> << >>,
     emitted |-> << >>,
     bins_total |-> 0,
     bins_observed |-> 0,
     bins_forward_fill |-> 0,
     bins_interpolation |-> 0,
     bins_missing |-> 0,
     summary |-> None]

\* variant: without the forced flush
emit_if_needed_unforced(s, c, force) ==
    IF Len(s.rows_to_emit) < c.emit_batch_size THEN s
    ELSE [s EXCEPT !.emitted = Append(@, s.rows_to_emit),
                   !.rows_to_emit = << >>]

\* _emit_if_needed: hand rows_to_emit to emit_rows as one batch
emit_if_needed(s, c, force) ==
    IF s.rows_to_emit = << >> THEN s
    ELSE IF ~force /\ Len(s.rows_to_emit) < c.emit_batch_size THEN s
    ELSE [s EXCEPT !.emitted = Append(@, s.rows_to_emit),
                   !.rows_to_emit = << >>]

\* variant: a bucket starts as not stale
default_row_not_stale(s) ==
    [bucket_epoch_s |-> s.current_bin_epoch_s,
     price |-> None,
     source_ingestion_ts_utc |-> None,
     source_ingestion_epoch_s |-> None,
     tick_count_in_bin |-> s.current_bin_tick_count,
     fill_method |-> "missing",
     age_seconds |-> None,
     is_stale |-> 0,
     is_missing |-> 1]

\* the row a bucket starts from: the defaults set before the branches
default_row(s) ==
    [bucket_epoch_s |-> s.current_bin_epoch_s,
     price |-> None,
     source_ingestion_ts_utc |-> None,
     source_ingestion_epoch_s |-> None,
     tick_count_in_bin |-> s.current_bin_tick_count,
     fill_method |-> "missing",
     age_seconds |-> None,
     is_stale |-> 1,
     is_missing |-> 1]

\* the test of the observed branch
bin_has_ticks(s) ==
    /\ s.current_bin_tick_count > 0
    /\ ~IsNone(s.current_bin_last_price)
    /\ ~IsNone(s.current_bin_last_ts_epoch_s)

\* the test of the fill branches
has_last_known(s) ==
    /\ ~IsNone(s.last_known_price)
    /\ ~IsNone(s.last_known_ts_epoch_s)

candidate_age(s) == s.current_bin_epoch_s - Val(s.last_known_ts_epoch_s)

\* variant: the limit itself is not fillable
forward_fill_possible_strict(s, c) == candidate_age(s) < c.max_forward_fill_s

\* variant: age and limit compared in whole bins
forward_fill_possible_whole_bins(s, c) ==
    candidate_age(s) \div c.bin_seconds <= c.max_forward_fill_s \div c.bin_seconds

forward_fill_possible(s, c) == candidate_age(s) <= c.max_forward_fill_s

\* variant: no condition on the age of the last known tick
interpolation_possible_any_age(s, c, next_tick_epoch_s, next_tick_price) ==
    /\ c.fill_method_mode = "interpolation"
    /\ ~IsNone(next_tick_epoch_s)
    /\ ~IsNone(next_tick_price)
    /\ Val(next_tick_epoch_s) > s.current_bin_epoch_s
    /\ Val(next_tick_epoch_s) > Val(s.last_known_ts_epoch_s)
    /\ Val(next_tick_epoch_s) - s.current_bin_epoch_s <= c.max_forward_fill_s

\* variant: the next tick's bucket, not its epoch, measured against the limit
interpolation_possible_next_bucket(s, c, next_tick_epoch_s, next_tick_price) ==
    /\ c.fill_method_mode = "interpolation"
    /\ candidate_age(s) <= c.max_forward_fill_s
    /\ ~IsNone(next_tick_epoch_s)
    /\ ~IsNone(next_tick_price)
    /\ Val(next_tick_epoch_s) > s.current_bin_epoch_s
    /\ Val(next_tick_epoch_s) > Val(s.last_known_ts_epoch_s)
    /\ floor_epoch(Val(next_tick_epoch_s), c.bin_seconds) - s.current_bin_epoch_s
         <= c.max_forward_fill_s

interpolation_possible(s, c, next_tick_epoch_s, next_tick_price) ==
    /\ c.fill_method_mode = "interpolation"
    /\ forward_fill_possible(s, c)
    /\ ~IsNone(next_tick_epoch_s)
    /\ ~IsNone(next_tick_price)
    /\ Val(next_tick_epoch_s) > s.current_bin_epoch_s
    /\ Val(next_tick_epoch_s) > Val(s.last_known_ts_epoch_s)
    /\ Val(next_tick_epoch_s) - s.current_bin_epoch_s <= c.max_forward_fill_s

\* variant: the weight taken from the distance to the next tick
interpolated_price_swapped(s, next_tick_epoch_s, next_tick_price) ==
    LET interpolation_span_s ==
            Val(next_tick_epoch_s) - Val(s.last_known_ts_epoch_s)
        ratio ==
            Frac(Val(next_tick_epoch_s) - s.current_bin_epoch_s,
                 interpolation_span_s)
        delta ==
            FracAdd(Val(next_tick_price),
                    FracMul(FracOfInt(-1), Val(s.last_known_price)))
    IN  FracAdd(Val(s.last_known_price), FracMul(delta, ratio))

interpolated_price(s, next_tick_epoch_s, next_tick_price) ==
    LET interpolation_span_s ==
            Val(next_tick_epoch_s) - Val(s.last_known_ts_epoch_s)
        ratio ==
            Frac(s.current_bin_epoch_s - Val(s.last_known_ts_epoch_s),
                 interpolation_span_s)
        delta ==
            FracAdd(Val(next_tick_price),
                    FracMul(FracOfInt(-1), Val(s.last_known_price)))
    IN  FracAdd(Val(s.last_known_price), FracMul(delta, ratio))

\* variant: the age of an interpolated bucket taken from the last known tick
nearest_age_from_last_known(s, next_tick_epoch_s) ==
    s.current_bin_epoch_s - Val(s.last_known_ts_epoch_s)

nearest_age(s, next_tick_epoch_s) ==
    Min(s.current_bin_epoch_s - Val(s.last_known_ts_epoch_s),
        Val(next_tick_epoch_s) - s.current_bin_epoch_s)

\* variant: an age equal to the limit is stale
stale_flag_at_limit(age, c) == IF age >= c.stale_after_s THEN 1 ELSE 0

stale_flag(age, c) == IF age > c.stale_after_s THEN 1 ELSE 0

\* the row of an observed bucket
observed_row(s) ==
    [default_row(s) EXCEPT
        !.price = s.current_bin_last_price,
        !.source_ingestion_ts_utc = s.current_bin_last_ts_utc,
        !.source_ingestion_epoch_s = s.current_bin_last_ts_epoch_s,
        !.fill_method = "observed",
        !.age_seconds = Some(0),
        !.is_stale = 0,
        !.is_missing = 0]

interpolation_row(s, c, next_tick_epoch_s, next_tick_price) ==
    [default_row(s) EXCEPT
        !.price = Some(interpolated_price(s, next_tick_epoch_s, next_tick_price)),
        !.fill_method = "interpolation",
        !.age_seconds = Some(nearest_age(s, next_tick_epoch_s)),
        !.is_stale = stale_flag(nearest_age(s, next_tick_epoch_s), c),
        !.is_missing = 0]

forward_fill_row(s, c) ==
    [default_row(s) EXCEPT
        !.price = s.last_known_price,
        !.source_ingestion_ts_utc = s.last_known_ts_utc,
        !.source_ingestion_epoch_s = s.last_known_ts_epoch_s,
        !.fill_method = "forward_fill",
        !.age_seconds = Some(candidate_age(s)),
        !.is_stale = stale_flag(candidate_age(s), c),
        !.is_missing = 0]

\* the row _finalize_current_bin appends for the current bucket
finalized_row(s, c, next_tick_epoch_s, next_tick_price) ==
    IF bin_has_ticks(s) THEN observed_row(s)
    ELSE IF has_last_known(s) THEN
        IF interpolation_possible(s, c, next_tick_epoch_s, next_tick_price)
        THEN interpolation_row(s, c, next_tick_epoch_s, next_tick_price)
        ELSE IF forward_fill_possible(s, c) THEN forward_fill_row(s, c)
        ELSE default_row(s)
    ELSE default_row(s)

\* variant: an interpolated row also counted as forward_fill
counter_increment_shared(method, row) ==
    IF row.fill_method = method
       \/ (method = "forward_fill" /\ row.fill_method = "interpolation")
    THEN 1 ELSE 0

\* bins_observed / bins_interpolation / bins_forward_fill / bins_missing += 1
counter_increment(method, row) == IF row.fill_method = method THEN 1 ELSE 0

\* variant: the tick count of the bucket is kept for the next bucket
finalize_current_bin_keeps_count(s, c, next_tick_epoch_s, next_tick_price) ==
    LET row == finalized_row(s, c, next_tick_epoch_s, next_tick_price)
        observed == bin_has_ticks(s)
    IN  [s EXCEPT
            !.last_known_price =
                IF observed THEN s.current_bin_last_price ELSE @,
            !.last_known_ts_utc =
                IF observed THEN s.current_bin_last_ts_utc ELSE @,
            !.last_known_ts_epoch_s =
                IF observed THEN s.current_bin_last_ts_epoch_s ELSE @,
            !.bins_observed = @ + counter_increment("observed", row),
            !.bins_interpolation = @ + counter_increment("interpolation", row),
            !.bins_forward_fill = @ + counter_increment("forward_fill", row),
            !.bins_missing = @ + counter_increment("missing", row),
            !.bins_total = @ + 1,
            !.rows_to_emit = Append(@, row),
            !.current_bin_last_price = None,
            !.current_bin_last_ts_utc = None,
            !.current_bin_last_ts_epoch_s = None]

\* _finalize_current_bin
finalize_current_bin(s, c, next_tick_epoch_s, next_tick_price) ==
    LET row == finalized_row(s, c, next_tick_epoch_s, next_tick_price)
        observed == bin_has_ticks(s)
    IN  [s EXCEPT
            !.last_known_price =
                IF observed THEN s.current_bin_last_price ELSE @,
            !.last_known_ts_utc =
                IF observed THEN s.current_bin_last_ts_utc ELSE @,
            !.last_known_ts_epoch_s =
                IF observed THEN s.current_bin_last_ts_epoch_s ELSE @,
            !.bins_observed = @ + counter_increment("observed", row),
            !.bins_interpolation = @ + counter_increment("interpolation", row),
            !.bins_forward_fill = @ + counter_increment("forward_fill", row),
            !.bins_missing = @ + counter_increment("missing", row),
            !.bins_total = @ + 1,
            !.rows_to_emit = Append(@, row),
            !.current_bin_tick_count = 0,
            !.current_bin_last_price = None,
            !.current_bin_last_ts_utc = None,
            !.current_bin_last_ts_epoch_s = None]

\* one pass of either while loop: finalize, emit, advance the bucket
finalize_and_advance(s, c, next_tick_epoch_s, next_tick_price) ==
    [emit_if_needed(finalize_current_bin(s, c, next_tick_epoch_s, next_tick_price),
                    c, FALSE)
        EXCEPT !.current_bin_epoch_s = @ + c.bin_seconds]

\* variant: the first tick of a bucket wins
accumulate_tick_keep_first(s, i, tick) ==
    IF s.current_bin_tick_count > 0
    THEN [s EXCEPT !.current_bin_tick_count = @ + 1, !.next_row = @ + 1]
    ELSE [s EXCEPT
            !.current_bin_tick_count = @ + 1,
            !.current_bin_last_price = Some(FracOfInt(tick.effective_price)),
            !.current_bin_last_ts_utc = Some(i),
            !.current_bin_last_ts_epoch_s = tick.ts_epoch_s,
            !.next_row = @ + 1]

\* variant: the bucket remembers that it has a tick, not how many
accumulate_tick_counts_one(s, i, tick) ==
    [s EXCEPT
        !.current_bin_tick_count = 1,
        !.current_bin_last_price = Some(FracOfInt(tick.effective_price)),
        !.current_bin_last_ts_utc = Some(i),
        !.current_bin_last_ts_epoch_s = tick.ts_epoch_s,
        !.next_row = @ + 1]

\* variant: the epoch of the tick is taken one second late
accumulate_tick_one_second_late(s, i, tick) ==
    [s EXCEPT
        !.current_bin_tick_count = @ + 1,
        !.current_bin_last_price = Some(FracOfInt(tick.effective_price)),
        !.current_bin_last_ts_utc = Some(i),
        !.current_bin_last_ts_epoch_s = Some(Val(tick.ts_epoch_s) + 1),
        !.next_row = @ + 1]

\* the assignments that count a tick into the current bucket
accumulate_tick(s, i, tick) ==
    [s EXCEPT
        !.current_bin_tick_count = @ + 1,
        !.current_bin_last_price = Some(FracOfInt(tick.effective_price)),
        !.current_bin_last_ts_utc = Some(i),
        !.current_bin_last_ts_epoch_s = tick.ts_epoch_s,
        !.next_row = @ + 1]

\* the PairSummary process_pair returns
pair_summary(s, prof) ==
    [source_tick_count |-> prof.source_tick_count,
     bins_total |-> s.bins_total,
     bins_observed |-> s.bins_observed,
     bins_forward_fill |-> s.bins_forward_fill,
     bins_interpolation |-> s.bins_interpolation,
     bins_missing |-> s.bins_missing]

\* the final forced flush and the return
flush_and_return(s, c, prof) ==
    [emit_if_needed(s, c, TRUE) EXCEPT
        !.status = "returned",
        !.summary = Some(pair_summary(s, prof))]

(* Where process_pair stands *)
AtTick(s, stream) == s.status = "running" /\ s.next_row <= Len(stream)
AtEnd(s, stream) == s.status = "running" /\ s.next_row > Len(stream)
TickBin(tick, c) == floor_epoch(Val(tick.ts_epoch_s), c.bin_seconds)

CanSkipTick(s, stream) ==
    AtTick(s, stream) /\ IsNone(stream[s.next_row].ts_epoch_s)
CanRaise(s, stream) ==
    /\ AtTick(s, stream)
    /\ ~IsNone(stream[s.next_row].ts_epoch_s)
    /\ ~stream[s.next_row].numeric
CanFinalizeBeforeTick(s, stream, c) ==
    /\ AtTick(s, stream)
    /\ ~IsNone(stream[s.next_row].ts_epoch_s)
    /\ stream[s.next_row].numeric
    /\ s.current_bin_epoch_s < TickBin(stream[s.next_row], c)
CanAccumulate(s, stream, c) ==
    /\ AtTick(s, stream)
    /\ ~IsNone(stream[s.next_row].ts_epoch_s)
    /\ stream[s.next_row].numeric
    /\ ~(s.current_bin_epoch_s < TickBin(stream[s.next_row], c))
\* variant: the sweep stops before the last bucket
CanFinalizeAtEnd_exclusive(s, stream) ==
    AtEnd(s, stream) /\ s.current_bin_epoch_s < s.end_epoch_s
CanFinalizeAtEnd(s, stream) ==
    AtEnd(s, stream) /\ s.current_bin_epoch_s <= s.end_epoch_s
CanReturn(s, stream) == AtEnd(s, stream) /\ ~CanFinalizeAtEnd(s, stream)

\* one step of process_pair, as a function of its locals
process_pair_step(s, stream, prof, c) ==
    IF CanSkipTick(s, stream) THEN [s EXCEPT !.next_row = @ + 1]
    ELSE IF CanRaise(s, stream) THEN [s EXCEPT !.status = "raised"]
    ELSE IF CanFinalizeBeforeTick(s, stream, c) THEN
        finalize_and_advance(s, c, stream[s.next_row].ts_epoch_s,
            Some(FracOfInt(stream[s.next_row].effective_price)))
    ELSE IF CanAccumulate(s, stream, c) THEN
        accumulate_tick(s, s.next_row, stream[s.next_row])
    ELSE IF CanFinalizeAtEnd(s, stream) THEN
        finalize_and_advance(s, c, None, None)
    ELSE IF CanReturn(s, stream) THEN flush_and_return(s, c, prof)
    ELSE s

RECURSIVE process_pair_from(_, _, _, _)
process_pair_from(s, stream, prof, c) ==
    IF s.status # "running" THEN s
    ELSE process_pair_from(process_pair_step(s, stream, prof, c), stream, prof, c)

\* process_pair run to its end: the batches handed to emit_rows, and the
\* returned PairSummary or the raised error
process_pair(stream, prof, c) ==
    process_pair_from(process_pair_init(prof, c), stream, prof, c)


-----------------------------------------------------------------------------
(* The engine on one pair: process_pair as a state machine *)

Odd(t) == ~t.numeric \/ IsNone(t.ts_epoch_s)

\* a stream may be extended by a row that keeps it ordered; one row at most
\* is unparseable or non-numeric
CanExtend(s, t) ==
    /\ \A i \in ParseableIdx(s) :
          IsNone(t.ts_epoch_s) \/ Val(s[i].ts_epoch_s) <= Val(t.ts_epoch_s)
    /\ Odd(t) => \A i \in 1..Len(s) : ~Odd(s[i])

RECURSIVE StreamsOfLen(_)
StreamsOfLen(n) ==
    IF n = 0 THEN {<< >>}
    ELSE {Append(p[1], p[2]) :
            p \in {q \in StreamsOfLen(n - 1) \X TickRows : CanExtend(q[1], q[2])}}

\* the ordered streams of a pair that load_pair_profiles gives a profile
Streams ==
    {s \in UNION {StreamsOfLen(n) : n \in 1..MaxTicks} :
        ~IsNone(load_pair_profile(s))}

Configs ==
    [bin_seconds : BinSecondsChoices,
     max_forward_fill_s : MaxForwardFillChoices,
     stale_after_s : StaleAfterChoices,
     fill_method_mode : FillModes,
     emit_batch_size : BatchSizeChoices]

\* the engine alone: no input DB, no execution of main, no output DB
NoSource == << >>
NoRun == [pc |-> "none"]
NoStore == [cleansed_market |-> << >>]

Init ==
    /\ cfg \in Configs
    /\ ticks \in {s \in Streams :
            Val(load_pair_profile(s)).min_epoch_s < cfg.bin_seconds}
    /\ profile = Val(load_pair_profile(ticks))
    /\ pp = process_pair_init(profile, cfg)
    /\ source = NoSource
    /\ run = NoRun
    /\ store = NoStore

\* a cursor row whose timestamp did not parse: continue
SkipTick ==
    /\ CanSkipTick(pp, ticks)
    /\ pp' = [pp EXCEPT !.next_row = @ + 1]
    /\ UNCHANGED <<ticks, cfg, profile, source, run, store>>

\* float(effective_price) raises on non-numeric text
RaiseOnTick ==
    /\ CanRaise(pp, ticks)
    /\ pp' = [pp EXCEPT !.status = "raised"]
    /\ UNCHANGED <<ticks, cfg, profile, source, run, store>>

\* one pass of: while current_bin_epoch_s < tick_bin_epoch_s
FinalizeBeforeTick ==
    /\ CanFinalizeBeforeTick(pp, ticks, cfg)
    /\ pp' = finalize_and_advance(pp, cfg, ticks[pp.next_row].ts_epoch_s,
                Some(FracOfInt(ticks[pp.next_row].effective_price)))
    /\ UNCHANGED <<ticks, cfg, profile, source, run, store>>

\* the tick is counted into the current bucket
AccumulateTick ==
    /\ CanAccumulate(pp, ticks, cfg)
    /\ pp' = accumulate_tick(pp, pp.next_row, ticks[pp.next_row])
    /\ UNCHANGED <<ticks, cfg, profile, source, run, store>>

\* one pass of: while current_bin_epoch_s <= end_epoch_s
FinalizeAtEnd ==
    /\ CanFinalizeAtEnd(pp, ticks)
    /\ pp' = finalize_and_advance(pp, cfg, None, None)
    /\ UNCHANGED <<ticks, cfg, profile, source, run, store>>

\* _emit_if_needed(force=True) and return PairSummary(...)
FlushAndReturn ==
    /\ CanReturn(pp, ticks)
    /\ pp' = flush_and_return(pp, cfg, profile)
    /\ UNCHANGED <<ticks, cfg, profile, source, run, store>>

Next ==
    \/ SkipTick
    \/ RaiseOnTick
    \/ FinalizeBeforeTick
    \/ AccumulateTick
    \/ FinalizeAtEnd
    \/ FlushAndReturn

Spec == Init /\ [][Next]_vars


-----------------------------------------------------------------------------
(* Properties of the engine, stated against the tick stream *)

RECURSIVE Flatten(_)
Flatten(batches) ==
    IF batches = << >> THEN << >> ELSE Head(batches) \o Flatten(Tail(batches))

\* every row finalized so far, in the order of finalization
RowsSoFar == Flatten(pp.emitted) \o pp.rows_to_emit
RowSet == {RowsSoFar[k] : k \in 1..Len(RowsSoFar)}

FillMethods == {"observed", "forward_fill", "interpolation", "missing"}

\* the start of the bucket an epoch falls in, without floor_epoch
BucketOf(e) ==
    CHOOSE m \in (e - cfg.bin_seconds + 1)..e : m % cfg.bin_seconds = 0

EpochOf(i) == Val(ticks[i].ts_epoch_s)
PriceOf(i) == <<ticks[i].effective_price, 1>>
TicksIn(b) == {i \in ParseableIdx(ticks) : BucketOf(EpochOf(i)) = b}
TicksBefore(b) == {i \in ParseableIdx(ticks) : EpochOf(i) < b}
TicksAfter(b) == {i \in ParseableIdx(ticks) : EpochOf(i) >= b + cfg.bin_seconds}
LastOf(S) == CHOOSE i \in S : \A j \in S : j <= i
FirstOf(S) == CHOOSE i \in S : \A j \in S : i <= j

\* C1. Density: the buckets finalized for a pair are floor(min_epoch),
\* floor(min_epoch) + bin_seconds, ... in this order without gap or repeat,
\* and when process_pair returns every one of them up to floor(max_epoch),
\* and none after it, has been handed to emit_rows.
Density ==
    LET first == BucketOf(profile.min_epoch_s)
        last == BucketOf(profile.max_epoch_s)
        emittedRows == Flatten(pp.emitted)
    IN  /\ \A k \in 1..Len(RowsSoFar) :
            /\ RowsSoFar[k].bucket_epoch_s = first + (k - 1) * cfg.bin_seconds
            /\ RowsSoFar[k].bucket_epoch_s <= last
        /\ pp.status = "returned" =>
            /\ pp.rows_to_emit = << >>
            /\ Len(emittedRows) = ((last - first) \div cfg.bin_seconds) + 1
            /\ emittedRows[Len(emittedRows)].bucket_epoch_s = last

\* a returned sparse pair: three or more buckets, one of them without a tick
DensityWitness ==
    /\ pp.status = "returned"
    /\ Len(RowsSoFar) >= 3
    /\ \E r \in RowSet : TicksIn(r.bucket_epoch_s) = {}

CountOf(method) ==
    Cardinality({k \in 1..Len(RowsSoFar) : RowsSoFar[k].fill_method = method})

\* C2. Fill-method exhaustiveness: every finalized row has one of the four
\* fill methods, each bins_* counter is the number of rows finalized so far
\* with that method, bins_total is their sum, and the returned PairSummary
\* carries these counters.
FillMethodExhaustive ==
    /\ \A r \in RowSet : r.fill_method \in FillMethods
    /\ pp.bins_observed = CountOf("observed")
    /\ pp.bins_forward_fill = CountOf("forward_fill")
    /\ pp.bins_interpolation = CountOf("interpolation")
    /\ pp.bins_missing = CountOf("missing")
    /\ pp.bins_total = Len(RowsSoFar)
    /\ pp.bins_total = pp.bins_observed + pp.bins_forward_fill
                        + pp.bins_interpolation + pp.bins_missing
    /\ pp.status = "returned" =>
        LET sm == Val(pp.summary)
        IN  /\ sm.bins_total = Len(Flatten(pp.emitted))
            /\ sm.bins_observed = CountOf("observed")
            /\ sm.bins_forward_fill = CountOf("forward_fill")
            /\ sm.bins_interpolation = CountOf("interpolation")
            /\ sm.bins_missing = CountOf("missing")
            /\ sm.bins_total = sm.bins_observed + sm.bins_forward_fill
                                + sm.bins_interpolation + sm.bins_missing

\* a returned pair with observed, forward-filled and interpolated rows
FillMethodWitness ==
    /\ pp.status = "returned"
    /\ Val(pp.summary).bins_observed > 0
    /\ Val(pp.summary).bins_interpolation > 0
    /\ Val(pp.summary).bins_forward_fill > 0

\* C3. Observed correctness: a finalized bucket in which ticks fell is
\* observed, with the price and the source timestamp of the last of its ticks
\* in stream order; and last_known_* are those of the last tick of the
\* buckets finalized so far.
ObservedIsLastTick ==
    /\ \A r \in RowSet :
        LET T == TicksIn(r.bucket_epoch_s)
        IN  T # {} =>
                /\ r.fill_method = "observed"
                /\ r.price = Some(PriceOf(LastOf(T)))
                /\ r.source_ingestion_ts_utc = Some(LastOf(T))
                /\ r.source_ingestion_epoch_s = Some(EpochOf(LastOf(T)))
                /\ r.tick_count_in_bin = Cardinality(T)
    /\ LET F == TicksBefore(pp.current_bin_epoch_s)
       IN  IF F = {} THEN IsNone(pp.last_known_price)
           ELSE /\ pp.last_known_price = Some(PriceOf(LastOf(F)))
                /\ pp.last_known_ts_utc = Some(LastOf(F))
                /\ pp.last_known_ts_epoch_s = Some(EpochOf(LastOf(F)))

\* an observed bucket of several ticks whose last price is neither the first
\* tick's price nor the largest price of the bucket
ObservedWitness ==
    \E r \in RowSet :
        LET T == TicksIn(r.bucket_epoch_s)
        IN  /\ Cardinality(T) >= 2
            /\ r.fill_method = "observed"
            /\ r.price # Some(PriceOf(FirstOf(T)))
            /\ \E i \in T : ticks[i].effective_price > Val(r.price)[1]
            /\ pp.last_known_price = r.price

\* a finalized bucket without ticks, after an observation
EmptyAfterObservation(r) ==
    /\ TicksIn(r.bucket_epoch_s) = {}
    /\ TicksBefore(r.bucket_epoch_s) # {}

PrevAge(r) == r.bucket_epoch_s - EpochOf(LastOf(TicksBefore(r.bucket_epoch_s)))
NextAge(r) == EpochOf(FirstOf(TicksAfter(r.bucket_epoch_s))) - r.bucket_epoch_s

IsForwardFill(r) ==
    /\ r.fill_method = "forward_fill"
    /\ r.price = Some(PriceOf(LastOf(TicksBefore(r.bucket_epoch_s))))
IsMissing(r) == r.fill_method = "missing" /\ IsNone(r.price)

\* C4. Forward-fill boundary: in mode forward_fill an empty bucket after an
\* observation carries the last known price when its age is at most
\* max_forward_fill_s and is missing, without price, when its age is larger.
ForwardFillBoundary ==
    cfg.fill_method_mode = "forward_fill" =>
        \A r \in RowSet :
            EmptyAfterObservation(r) =>
                IF PrevAge(r) <= cfg.max_forward_fill_s
                THEN IsForwardFill(r) /\ r.age_seconds = Some(PrevAge(r))
                ELSE IsMissing(r)

\* a forward-filled bucket whose age is exactly max_forward_fill_s
ForwardFillBoundaryWitness ==
    /\ cfg.fill_method_mode = "forward_fill"
    /\ \E r \in RowSet :
        /\ EmptyAfterObservation(r)
        /\ PrevAge(r) = cfg.max_forward_fill_s
        /\ r.fill_method = "forward_fill"

\* C5. Interpolation correctness: the price of an interpolated bucket b,
\* between the last tick before it (p0 at t0) and the first tick after it
\* (p1 at t1), is p0 + (p1 - p0) * (b - t0) / (t1 - t0).
InterpolationPrice ==
    \A r \in RowSet :
        r.fill_method = "interpolation" =>
            LET b == r.bucket_epoch_s
                i0 == LastOf(TicksBefore(b))
                i1 == FirstOf(TicksAfter(b))
                t0 == EpochOf(i0)
                t1 == EpochOf(i1)
                p0 == ticks[i0].effective_price
                p1 == ticks[i1].effective_price
                price == Val(r.price)
            IN  /\ t1 > t0
                /\ price[2] > 0
                /\ price[1] * (t1 - t0)
                     = price[2] * (p0 * (t1 - t0) + (p1 - p0) * (b - t0))

\* 10 at epoch 0, 20 at epoch 5: the bucket at epoch 2 is interpolated to 14
InterpolationWitness ==
    \E r \in RowSet :
        /\ r.fill_method = "interpolation"
        /\ r.bucket_epoch_s = 2
        /\ EpochOf(LastOf(TicksBefore(2))) = 0
        /\ ticks[LastOf(TicksBefore(2))].effective_price = 10
        /\ EpochOf(FirstOf(TicksAfter(2))) = 5
        /\ ticks[FirstOf(TicksAfter(2))].effective_price = 20
        /\ r.price = Some(<<14, 1>>)


\* a future tick as the specification describes it: its bucket is within
\* max_forward_fill_s of bucket b and it lies after the last known tick
SpecFutureTick(r) ==
    \E i \in TicksAfter(r.bucket_epoch_s) :
        /\ BucketOf(EpochOf(i)) - r.bucket_epoch_s <= cfg.max_forward_fill_s
        /\ EpochOf(i) > EpochOf(LastOf(TicksBefore(r.bucket_epoch_s)))

\* the same with the tick's own epoch measured against the limit
NearFutureTick(r) ==
    \E i \in TicksAfter(r.bucket_epoch_s) :
        /\ EpochOf(i) - r.bucket_epoch_s <= cfg.max_forward_fill_s
        /\ EpochOf(i) > EpochOf(LastOf(TicksBefore(r.bucket_epoch_s)))

FallsThrough(r) ==
    IF PrevAge(r) <= cfg.max_forward_fill_s THEN IsForwardFill(r) ELSE IsMissing(r)

\* C6, as the specification states it: in mode interpolation an empty bucket
\* after an observation is interpolated whenever a future tick exists whose
\* bucket epoch is within max_forward_fill_s of the bucket and whose epoch is
\* after the last known one, whatever the age of the last known tick;
\* otherwise it is forward-filled (age within the limit) or missing.
InterpolationEligibilityAsSpecified ==
    cfg.fill_method_mode = "interpolation" =>
        \A r \in RowSet :
            EmptyAfterObservation(r) =>
                IF SpecFutureTick(r) THEN r.fill_method = "interpolation"
                ELSE FallsThrough(r)

\* C6, amended: in mode interpolation an empty bucket after an observation is
\* interpolated whenever the last known tick is at most max_forward_fill_s
\* old and a future tick exists whose epoch (not its bucket epoch) is within
\* max_forward_fill_s of the bucket and after the last known epoch; otherwise
\* it is forward-filled (age within the limit) or missing.
InterpolationEligibilityAmended ==
    cfg.fill_method_mode = "interpolation" =>
        \A r \in RowSet :
            EmptyAfterObservation(r) =>
                IF PrevAge(r) <= cfg.max_forward_fill_s /\ NearFutureTick(r)
                THEN r.fill_method = "interpolation"
                ELSE FallsThrough(r)

\* an interpolated bucket whose next tick is exactly max_forward_fill_s away
\* and not on a bucket boundary
InterpolationEligibilityWitness ==
    /\ cfg.fill_method_mode = "interpolation"
    /\ \E r \in RowSet :
        /\ EmptyAfterObservation(r)
        /\ r.fill_method = "interpolation"
        /\ NextAge(r) = cfg.max_forward_fill_s
        /\ BucketOf(EpochOf(FirstOf(TicksAfter(r.bucket_epoch_s)))) - r.bucket_epoch_s
             < NextAge(r)

\* C7. Interpolation eligibility as the command-line help states it: with
\* --fill-method interpolation a bucket without ticks is interpolated exactly
\* when the previous value and the next value are both within
\* max_forward_fill_s of it; every other bucket without ticks is forward
\* filled when its previous value is within the limit, and missing if not.
InterpolationWhenBothWithin ==
    cfg.fill_method_mode = "interpolation" =>
        \A r \in RowSet :
            TicksIn(r.bucket_epoch_s) = {} =>
                /\ TicksBefore(r.bucket_epoch_s) # {}
                /\ TicksAfter(r.bucket_epoch_s) # {}
                /\ r.fill_method = "interpolation"
                    <=> /\ PrevAge(r) <= cfg.max_forward_fill_s
                        /\ NextAge(r) <= cfg.max_forward_fill_s
                /\ r.fill_method # "interpolation" =>
                    /\ r.fill_method = "forward_fill"
                        <=> PrevAge(r) <= cfg.max_forward_fill_s
                    /\ r.fill_method = "missing"
                        <=> PrevAge(r) > cfg.max_forward_fill_s
                    /\ FallsThrough(r)

\* one pair with an interpolated bucket, next age exactly at the limit, and a
\* bucket forward-filled because only its next value is too far
InterpolationWhenBothWithinWitness ==
    /\ cfg.fill_method_mode = "interpolation"
    /\ \E r \in RowSet :
        /\ r.fill_method = "interpolation"
        /\ PrevAge(r) = cfg.max_forward_fill_s
    /\ \E r \in RowSet :
        /\ r.fill_method = "forward_fill"
        /\ NextAge(r) = cfg.max_forward_fill_s + 1

\* C8. With max_forward_fill_s = 0, in both fill modes, no row is
\* forward_fill or interpolation: every bucket without a tick is missing.
ZeroLimitDisablesFilling ==
    cfg.max_forward_fill_s = 0 =>
        \A r \in RowSet :
            /\ r.fill_method \in {"observed", "missing"}
            /\ TicksIn(r.bucket_epoch_s) = {} => IsMissing(r)
            /\ r.fill_method = "missing" => TicksIn(r.bucket_epoch_s) = {}

\* limit 0, mode interpolation: a missing bucket whose neighbours are as
\* close as ticks can be
ZeroLimitWitness ==
    /\ cfg.max_forward_fill_s = 0
    /\ cfg.fill_method_mode = "interpolation"
    /\ pp.status = "returned"
    /\ \E r \in RowSet :
        /\ EmptyAfterObservation(r)
        /\ PrevAge(r) = 1
        /\ NextAge(r) = cfg.bin_seconds
        /\ IsMissing(r)


-----------------------------------------------------------------------------
(* A run: main, run_pairs_parallel and worker_process_loop.                *)
(*                                                                         *)
(* The program is executed twice on the same input DB with the same        *)
(* configuration into the same output DB: first with --workers 1, then     *)
(* with --workers N > 1; each execution chooses its --worker-queue-size.   *)
(* The executions start in different clock seconds, so their run_id differ *)
(* (1 and 2). The runs are those with --no-enable-dq. cleansed_market is   *)
(* kept per (run_id, pair) in insertion order; the pair summaries are a    *)
(* bag of rows.                                                            *)

\* Bounds of the model
MaxPairs == 2
MaxWorkers == 2

RunIds == {1, 2}
QueueSizes == {0, 1}

\* A row of market_ticks, as the queries read it. ingestion_ts_utc is NULL
\* (None) or a text: the text t >= 0 is one strftime('%s') turns into the
\* epoch t, the text UnparseableText is one it turns into NULL. price stands
\* for COALESCE(price, last): NULL or a value, and numeric is FALSE when the
\* value is a text float() rejects. bid and ask are NULL or integers. The
\* columns last, base_volume and quote_volume are NULL in every row.
UnparseableText == -1

MarketTick(ts, price, numeric, bid, ask) ==
    [ingestion_ts_utc |-> ts, price |-> price, numeric |-> numeric,
     bid |-> bid, ask |-> ask]

Tick(e, p) == MarketTick(Some(e), Some(p), TRUE, None, None)
TextTick(e) == MarketTick(Some(e), Some(0), FALSE, None, None)

\* strftime('%s', ingestion_ts_utc)
strftime_s(ingestion_ts_utc) ==
    IF IsNone(ingestion_ts_utc) \/ Val(ingestion_ts_utc) = UnparseableText
    THEN None
    ELSE ingestion_ts_utc

\* build_pair_filter_clause: ingestion_ts_utc IS NOT NULL AND
\* COALESCE(price, last) IS NOT NULL
passes_pair_filter(row) ==
    ~IsNone(row.ingestion_ts_utc) /\ ~IsNone(row.price)

\* the rows the cursor of process_pair (and the aggregate of
\* load_pair_profiles) reads of a pair: the rows that pass the filter, each
\* with its epoch and its effective price; the table is kept in the order of
\* ORDER BY ingestion_ts_utc, id
RECURSIVE cursor_of(_)
cursor_of(rows) ==
    IF rows = << >> THEN << >>
    ELSE (IF passes_pair_filter(Head(rows))
          THEN <<[ts_epoch_s |-> strftime_s(Head(rows).ingestion_ts_utc),
                  effective_price |-> Val(Head(rows).price),
                  numeric |-> Head(rows).numeric]>>
          ELSE << >>)
         \o cursor_of(Tail(rows))

\* the streams the pairs of the input DB are drawn from: one that
\* process_pair resamples, and one whose last price is text that float()
\* rejects
RunStreams ==
    {<<Tick(0, 10), Tick(1, 20)>>,
     <<Tick(0, 10), Tick(2, 20), TextTick(3)>>}

Sources == UNION {[1..n -> RunStreams] : n \in 0..MaxPairs}

\* the configurations of the runs: both bin widths, one filling policy
RunConfigs ==
    {c \in Configs :
        /\ c.max_forward_fill_s = 2
        /\ c.stale_after_s = 2
        /\ c.fill_method_mode = "interpolation"}

PairIds == 1..MaxPairs

\* load_pair_profiles: the profiles of the pairs, ORDER BY exchange_id, symbol
RECURSIVE load_pair_profiles_from(_, _)
load_pair_profiles_from(src, i) ==
    IF i > Len(src) THEN << >>
    ELSE (IF IsNone(load_pair_profile(cursor_of(src[i]))) THEN << >>
          ELSE <<[pair |-> i,
                  profile |-> Val(load_pair_profile(cursor_of(src[i])))]>>)
         \o load_pair_profiles_from(src, i + 1)

load_pair_profiles(src) == load_pair_profiles_from(src, 1)

\* a row of cleansed_market: the tuple process_pair appends carries run_id
\* and the pair
db_row(run_id, pair, row) == [run_id |-> run_id, pair |-> pair] @@ row

db_rows(run_id, pair, rows) ==
    [k \in 1..Len(rows) |-> db_row(run_id, pair, rows[k])]

\* what process_pair does to its caller for one pair: the emit_rows calls in
\* order, then the returned summary or the raised exception
pair_effects(src, run_id, item, c) ==
    LET out == process_pair(cursor_of(src[item.pair]), item.profile, c)
    IN  [k \in 1..Len(out.emitted) |->
            [kind |-> "rows", body |-> db_rows(run_id, item.pair, out.emitted[k])]]
        \o (IF out.status = "returned"
            THEN <<[kind |-> "summary",
                    body |-> [pair |-> item.pair] @@ Val(out.summary)]>>
            ELSE <<[kind |-> "raise", body |-> "ValueError"]>>)

\* variant: a row is inserted in front of the rows of its pair
RECURSIVE insert_rows_chunk_at_front(_, _)
insert_rows_chunk_at_front(table, rows) ==
    IF rows = << >> THEN table
    ELSE LET r == Head(rows)
             key == <<r.run_id, r.pair>>
         IN  insert_rows_chunk_at_front([table EXCEPT ![key] = <<r>> \o @],
                                        Tail(rows))

\* insert_rows_chunk: INSERT INTO cleansed_market ... ; commit
RECURSIVE insert_rows_chunk(_, _)
insert_rows_chunk(table, rows) ==
    IF rows = << >> THEN table
    ELSE LET r == Head(rows)
             key == <<r.run_id, r.pair>>
         IN  insert_rows_chunk([table EXCEPT ![key] = Append(@, r)], Tail(rows))

\* insert_pair_summaries: INSERT INTO cleansing_pair_summary ... ; commit
RECURSIVE insert_pair_summaries(_, _, _)
insert_pair_summaries(table, run_id, summaries) ==
    IF summaries = << >> THEN table
    ELSE insert_pair_summaries(
            table (+) SetToBag({[run_id |-> run_id] @@ Head(summaries)}),
            run_id, Tail(summaries))

RECURSIVE SumOf(_, _)
SumOf(summaries, field) ==
    IF summaries = << >> THEN 0
    ELSE Head(summaries)[field] + SumOf(Tail(summaries), field)

\* variant: total_rows without the interpolated rows
run_metadata_row_without_interpolation(r, c, summaries) ==
    [workers |-> r.workers,
     bin_seconds |-> c.bin_seconds,
     max_forward_fill_s |-> c.max_forward_fill_s,
     stale_after_s |-> c.stale_after_s,
     fill_method_mode |-> c.fill_method_mode,
     dq_enabled |-> IF r.enable_dq THEN 1 ELSE 0,
     total_pairs |-> Len(summaries),
     total_rows |-> SumOf(summaries, "bins_observed")
                    + SumOf(summaries, "bins_forward_fill")
                    + SumOf(summaries, "bins_missing"),
     observed_rows |-> SumOf(summaries, "bins_observed"),
     forward_fill_rows |-> SumOf(summaries, "bins_forward_fill"),
     interpolation_rows |-> SumOf(summaries, "bins_interpolation"),
     missing_rows |-> SumOf(summaries, "bins_missing")]

\* the row insert_run_metadata writes (INSERT OR REPLACE, keyed by run_id)
run_metadata_row(r, c, summaries) ==
    [workers |-> r.workers,
     bin_seconds |-> c.bin_seconds,
     max_forward_fill_s |-> c.max_forward_fill_s,
     stale_after_s |-> c.stale_after_s,
     fill_method_mode |-> c.fill_method_mode,
     dq_enabled |-> IF r.enable_dq THEN 1 ELSE 0,
     total_pairs |-> Len(summaries),
     total_rows |-> SumOf(summaries, "bins_total"),
     observed_rows |-> SumOf(summaries, "bins_observed"),
     forward_fill_rows |-> SumOf(summaries, "bins_forward_fill"),
     interpolation_rows |-> SumOf(summaries, "bins_interpolation"),
     missing_rows |-> SumOf(summaries, "bins_missing")]

(* Data quality *)

\* --dq-outlier-threshold-pct, as a fraction: the default 0.2
DqOutlierThreshold == <<1, 5>>

\* a value compared with a number by SQLite: a text is greater than every
\* number, so a text price is neither <= 0 nor < 0
below(value, numeric, bound, strict) ==
    /\ ~IsNone(value)
    /\ numeric
    /\ IF strict THEN Val(value) < bound ELSE Val(value) <= bound

\* SUM(cnt - 1) over the groups of GROUP BY ingestion_ts_utc,
\* effective_price with more than one row: the rows less the groups
duplicate_tick_count(rows) ==
    Len(rows)
    - Cardinality({<<rows[i].ingestion_ts_utc, rows[i].price, rows[i].numeric>> :
                        i \in 1..Len(rows)})

\* collect_source_dq_summaries: one DQSummary for every pair in scope, ORDER BY
\* exchange_id, symbol, with the counters of the query over all the rows of
\* the pair, the rows the pair filter leaves out included
collect_source_dq_summaries(src) ==
    [p \in 1..Len(src) |->
        LET \* SUM(CASE WHEN ... THEN 1 ELSE 0 END) over the rows of the pair
            CountWhere(rows, Test(_)) ==
                Cardinality({i \in 1..Len(rows) : Test(rows[i])})
            null_ts(row) == IsNone(row.ingestion_ts_utc)
            invalid_ts(row) ==
                ~IsNone(row.ingestion_ts_utc)
                /\ IsNone(strftime_s(row.ingestion_ts_utc))
            null_price(row) == IsNone(row.price)
            non_positive(row) == below(row.price, row.numeric, 0, FALSE)
            negative(row) ==
                \/ below(row.price, row.numeric, 0, TRUE)
                \/ below(row.bid, TRUE, 0, TRUE)
                \/ below(row.ask, TRUE, 0, TRUE)
            bid_gt_ask(row) ==
                ~IsNone(row.bid) /\ ~IsNone(row.ask) /\ Val(row.bid) > Val(row.ask)
        IN  [pair |-> p,
             source_row_count |-> Len(src[p]),
             null_ingestion_ts_count |-> CountWhere(src[p], null_ts),
             invalid_ingestion_ts_count |-> CountWhere(src[p], invalid_ts),
             null_effective_price_count |-> CountWhere(src[p], null_price),
             non_positive_effective_price_count |-> CountWhere(src[p], non_positive),
             rows_with_negative_values_count |-> CountWhere(src[p], negative),
             bid_gt_ask_count |-> CountWhere(src[p], bid_gt_ask),
             duplicate_tick_count |-> duplicate_tick_count(src[p]),
             outlier_return_count |-> 0,
             issue_counter_sum |-> 0]]

\* variant: a return equal to the threshold is an outlier
is_outlier_at_threshold(price, prev_price, threshold) ==
    /\ prev_price[1] # 0
    /\ Abs(price[1] * prev_price[2] - prev_price[1] * price[2]) * threshold[2]
            >= threshold[1] * Abs(prev_price[1] * price[2])

\* ABS((price - prev_price) / prev_price) > threshold, prev_price <> 0
is_outlier(price, prev_price, threshold) ==
    /\ prev_price[1] # 0
    /\ Abs(price[1] * prev_price[2] - prev_price[1] * price[2]) * threshold[2]
            > threshold[1] * Abs(prev_price[1] * price[2])

\* collect_outlier_counts_from_cleansed: for every pair with observed rows of
\* the run, the number of observed rows whose price leaves the price of the
\* observed row before it (LAG ... ORDER BY bucket_epoch_s) by more than the
\* threshold
collect_outlier_counts_from_cleansed(table, run_id, threshold) ==
    LET observed(p) ==
            {table[<<run_id, p>>][k] : k \in
                {j \in 1..Len(table[<<run_id, p>>]) :
                    /\ table[<<run_id, p>>][j].fill_method = "observed"
                    /\ ~IsNone(table[<<run_id, p>>][j].price)}}
        before(p, row) ==
            {q \in observed(p) : q.bucket_epoch_s < row.bucket_epoch_s}
        lag(p, row) ==
            CHOOSE q \in before(p, row) :
                \A o \in before(p, row) : o.bucket_epoch_s <= q.bucket_epoch_s
    IN  [p \in {q \in PairIds : observed(q) # {}} |->
            Cardinality({row \in observed(p) :
                /\ before(p, row) # {}
                /\ is_outlier(Val(row.price), Val(lag(p, row).price), threshold)})]

\* dq_map[key].outlier_return_count = count, for the keys of outlier_counts
\* that dq_map has
with_outlier_counts(summaries, outlier_counts) ==
    [k \in 1..Len(summaries) |->
        IF summaries[k].pair \in DOMAIN outlier_counts
        THEN [summaries[k] EXCEPT
                !.outlier_return_count = outlier_counts[summaries[k].pair]]
        ELSE summaries[k]]

\* variant: the sum is taken over the counters of the source alone
finalize_dq_issue_counters_source_only(summaries) ==
    [k \in 1..Len(summaries) |->
        [summaries[k] EXCEPT
            !.issue_counter_sum =
                summaries[k].null_ingestion_ts_count
                + summaries[k].invalid_ingestion_ts_count
                + summaries[k].null_effective_price_count
                + summaries[k].non_positive_effective_price_count
                + summaries[k].rows_with_negative_values_count
                + summaries[k].bid_gt_ask_count
                + summaries[k].duplicate_tick_count]]

finalize_dq_issue_counters(summaries) ==
    [k \in 1..Len(summaries) |->
        [summaries[k] EXCEPT
            !.issue_counter_sum =
                summaries[k].null_ingestion_ts_count
                + summaries[k].invalid_ingestion_ts_count
                + summaries[k].null_effective_price_count
                + summaries[k].non_positive_effective_price_count
                + summaries[k].rows_with_negative_values_count
                + summaries[k].bid_gt_ask_count
                + summaries[k].duplicate_tick_count
                + summaries[k].outlier_return_count]]

\* insert_dq_summary: DELETE FROM cleansing_dq_summary WHERE run_id = ?, then
\* the INSERT of the summaries; commit
insert_dq_summary(table, run_id, summaries) ==
    [table EXCEPT ![run_id] =
        [k \in 1..Len(summaries) |-> [run_id |-> run_id] @@ summaries[k]]]

\* the row insert_dq_run_summary writes (INSERT OR REPLACE, keyed by run_id)
dq_run_summary_row(summaries) ==
    [pair_count |-> Len(summaries),
     pairs_with_any_issue |->
        Cardinality({k \in 1..Len(summaries) : summaries[k].issue_counter_sum > 0}),
     total_issue_counter_sum |-> SumOf(summaries, "issue_counter_sum"),
     total_outlier_return_count |-> SumOf(summaries, "outlier_return_count")]

\* ensure_output_schema on a new output DB
EmptyStore ==
    [cleansed_market |-> [k \in RunIds \X PairIds |-> << >>],
     cleansing_pair_summary |-> EmptyBag,
     cleansing_run_metadata |-> [id \in RunIds |-> None],
     cleansing_dq_summary |-> [id \in RunIds |-> << >>],
     cleansing_dq_run_summary |-> [id \in RunIds |-> None]]

\* a worker process
NoWorker == [pc |-> "none", todo |-> << >>]
StartedWorker == [pc |-> "get", todo |-> << >>]

\* main before its first execution
IdleRun ==
    [pc |-> "idle",
     run_id |-> 0,
     executions |-> 0,
     workers |-> 0,
     worker_queue_size |-> 0,
     enable_dq |-> FALSE,
     dq_summaries |-> << >>,
     pair_profiles |-> << >>,
     effects |-> << >>,
     index |-> 0,
     todo |-> << >>,
     summaries |-> << >>,
     effective_workers |-> 0,
     completed_workers |-> 0,
     work_queue |-> << >>,
     result_queue |-> << >>,
     worker |-> [w \in 1..MaxWorkers |-> NoWorker],
     outcome |-> [id \in RunIds |-> None]]

InitRun ==
    /\ cfg \in RunConfigs
    /\ source \in Sources
    /\ run = IdleRun
    /\ store = EmptyStore
    /\ ticks = << >>
    /\ profile = None
    /\ pp = [status |-> "none"]

engineVars == <<ticks, profile, pp>>

(* main: start of an execution *)

CanLaunch ==
    \/ run.pc = "idle"
    \/ run.pc \in {"done", "failed"} /\ run.run_id + 1 \in RunIds

\* the --workers an execution can be given: 1 first, more than 1 afterwards
WorkersChoices == IF run.pc = "idle" THEN {1} ELSE 2..MaxWorkers

\* what process_pair does for each pair of an execution: a function of the
\* input DB, the run_id and the configuration alone, worked out once when
\* the execution starts and looked up where process_pair is called
effects_of(src, run_id, pair_profiles, c) ==
    [p \in {pair_profiles[k].pair : k \in 1..Len(pair_profiles)} |->
        pair_effects(src, run_id,
                     CHOOSE item \in {pair_profiles[k] : k \in 1..Len(pair_profiles)} :
                        item.pair = p,
                     c)]

\* the state main starts an execution from: arguments parsed and valid,
\* run_id minted, both DBs opened, pair profiles loaded. The run_id is the
\* text of the clock second and of --bin-seconds: here the clock has reached
\* a later second than at the execution before, so the text is a new one
\* (relaunched is the other case).
launched(r, src, workers, worker_queue_size) ==
    [IdleRun EXCEPT
        !.run_id = r.run_id + 1,
        !.executions = r.executions + 1,
        !.workers = workers,
        !.worker_queue_size = worker_queue_size,
        !.enable_dq = r.enable_dq,
        !.dq_summaries = IF r.enable_dq THEN collect_source_dq_summaries(src)
                         ELSE << >>,
        !.pair_profiles = load_pair_profiles(src),
        !.effects = effects_of(src, r.run_id + 1, load_pair_profiles(src), cfg),
        !.outcome = r.outcome]

\* the exit of main, as its caller sees it; the memory of the process, its
\* queues and its workers are gone
ended(r, pc, code) ==
    [IdleRun EXCEPT
        !.pc = pc,
        !.run_id = r.run_id,
        !.executions = r.executions,
        !.enable_dq = r.enable_dq,
        !.outcome = [r.outcome EXCEPT
            ![r.run_id] = Some([exit |-> code, workers |-> r.workers,
                                error |-> None])]]

\* the exit of main by an exception or a SystemExit with a message: what the
\* caller is told
failed_with(r, error) ==
    [ended(r, "failed", 1) EXCEPT
        !.outcome[r.run_id] = Some([Val(@) EXCEPT !.error = Some(error)])]

\* variant: an execution without pairs is a failed run
LaunchEmpty_fails ==
    /\ CanLaunch
    /\ load_pair_profiles(source) = << >>
    /\ \E w \in WorkersChoices, q \in QueueSizes :
        run' = ended(launched(run, source, w, q), "failed", 1)
    /\ UNCHANGED <<cfg, source, store, engineVars>>

\* if not pair_profiles: write the metadata of an empty run and return
LaunchEmpty ==
    /\ CanLaunch
    /\ load_pair_profiles(source) = << >>
    /\ \E w \in WorkersChoices, q \in QueueSizes :
        LET r == launched(run, source, w, q)
        IN  /\ store' = [store EXCEPT
                    !.cleansing_run_metadata[r.run_id] =
                        Some(run_metadata_row(r, cfg, << >>))]
            /\ run' = IF r.enable_dq THEN [r EXCEPT !.pc = "dq_summary"]
                       ELSE ended(r, "done", 0)
    /\ UNCHANGED <<cfg, source, engineVars>>

\* if args.workers == 1: the loop over pair_profiles in main
LaunchSequential ==
    /\ CanLaunch
    /\ load_pair_profiles(source) # << >>
    /\ \E w \in WorkersChoices \cap {1}, q \in QueueSizes :
        run' = [launched(run, source, w, q) EXCEPT !.pc = "sequential", !.index = 1]
    /\ UNCHANGED <<cfg, source, store, engineVars>>

\* the loop reaches a pair: process_pair starts on it
SeqProcessPair ==
    /\ run.pc = "sequential"
    /\ run.todo = << >>
    /\ run.index <= Len(run.pair_profiles)
    /\ run' = [run EXCEPT !.todo = run.effects[run.pair_profiles[run.index].pair]]
    /\ UNCHANGED <<cfg, source, store, engineVars>>

\* _emit_rows_sequential: the batch is inserted by main itself
SeqEmitRows ==
    /\ run.pc = "sequential"
    /\ run.todo # << >>
    /\ Head(run.todo).kind = "rows"
    /\ store' = [store EXCEPT !.cleansed_market =
                    insert_rows_chunk(@, Head(run.todo).body)]
    /\ run' = [run EXCEPT !.todo = Tail(@)]
    /\ UNCHANGED <<cfg, source, engineVars>>

\* summaries.append(summary)
SeqAppendSummary ==
    /\ run.pc = "sequential"
    /\ run.todo # << >>
    /\ Head(run.todo).kind = "summary"
    /\ run' = [run EXCEPT !.summaries = Append(@, Head(run.todo).body),
                          !.todo = Tail(@),
                          !.index = @ + 1]
    /\ UNCHANGED <<cfg, source, store, engineVars>>

\* process_pair raises: the exception leaves main, the process exits with 1
SeqRaise ==
    /\ run.pc = "sequential"
    /\ run.todo # << >>
    /\ Head(run.todo).kind = "raise"
    /\ run' = failed_with(run, [error |-> Head(run.todo).body])
    /\ UNCHANGED <<cfg, source, store, engineVars>>

\* the loop is over
SeqLoopEnd ==
    /\ run.pc = "sequential"
    /\ run.todo = << >>
    /\ run.index > Len(run.pair_profiles)
    /\ run' = [run EXCEPT !.pc = "summaries"]
    /\ UNCHANGED <<cfg, source, store, engineVars>>

(* main: after the pairs *)

\* insert_pair_summaries(output_connection, run_id, summaries)
InsertPairSummaries ==
    /\ run.pc = "summaries"
    /\ store' = [store EXCEPT !.cleansing_pair_summary =
                    insert_pair_summaries(@, run.run_id, run.summaries)]
    /\ run' = [run EXCEPT !.pc = IF run.enable_dq THEN "dq_summary" ELSE "metadata"]
    /\ UNCHANGED <<cfg, source, engineVars>>

\* insert_run_metadata, write_run_json_export, and main returns
InsertRunMetadata ==
    /\ run.pc = "metadata"
    /\ store' = [store EXCEPT
            !.cleansing_run_metadata[run.run_id] =
                Some(run_metadata_row(run, cfg, run.summaries))]
    /\ run' = ended(run, "done", 0)
    /\ UNCHANGED <<cfg, source, engineVars>>

\* if args.enable_dq: the outlier counts of the run's rows (only where pairs
\* were processed), finalize_dq_issue_counters and insert_dq_summary
InsertDQSummary ==
    /\ run.pc = "dq_summary"
    /\ LET counted ==
            IF run.pair_profiles = << >> THEN run.dq_summaries
            ELSE with_outlier_counts(
                    run.dq_summaries,
                    collect_outlier_counts_from_cleansed(
                        store.cleansed_market, run.run_id, DqOutlierThreshold))
           finalized == finalize_dq_issue_counters(counted)
       IN  /\ store' = [store EXCEPT !.cleansing_dq_summary =
                            insert_dq_summary(@, run.run_id, finalized)]
           /\ run' = [run EXCEPT !.pc = "dq_run_summary",
                                 !.dq_summaries = finalized]
    /\ UNCHANGED <<cfg, source, engineVars>>

\* insert_dq_run_summary; without pairs main then exports and returns, with
\* pairs it goes on to insert_run_metadata
InsertDQRunSummary ==
    /\ run.pc = "dq_run_summary"
    /\ store' = [store EXCEPT !.cleansing_dq_run_summary[run.run_id] =
                    Some(dq_run_summary_row(run.dq_summaries))]
    /\ run' = IF run.pair_profiles = << >> THEN ended(run, "done", 0)
              ELSE [run EXCEPT !.pc = "metadata"]
    /\ UNCHANGED <<cfg, source, engineVars>>

(* run_pairs_parallel and worker_process_loop *)

\* effective_workers = min(workers, max(1, len(pair_profiles)))
effective_workers(workers, pair_profiles) ==
    Min(workers, Max(1, Len(pair_profiles)))

\* variant: the sentinels are put before the profiles
work_queue_filled_sentinels_first(pair_profiles, n) ==
    [k \in 1..n |-> None]
    \o [k \in 1..Len(pair_profiles) |-> Some(pair_profiles[k])]

\* the work queue after both put loops: every profile, then one None a worker
work_queue_filled(pair_profiles, n) ==
    [k \in 1..Len(pair_profiles) |-> Some(pair_profiles[k])]
    \o [k \in 1..n |-> None]

worker_done_message(w) == [kind |-> "worker_done", body |-> w]

\* variant: the worker reports done after an exception
worker_error_message_as_done(w, error) == [kind |-> "worker_done", body |-> w]

worker_error_message(w, error) == [kind |-> "worker_error", body |-> <<w, error>>]

\* variant: a put returns while the queue holds maxsize messages
result_queue_has_room_when_full(r) ==
    r.worker_queue_size = 0 \/ Len(r.result_queue) <= r.worker_queue_size

\* result_queue.put does not block
result_queue_has_room(r) ==
    r.worker_queue_size = 0 \/ Len(r.result_queue) < r.worker_queue_size

\* variant: the loop ends with the first worker that is done
writer_loop_over_at_first(r) == r.completed_workers >= 1

\* variant: the loop ends when all workers but one are done
writer_loop_over_before_last(r) == r.completed_workers + 1 >= r.effective_workers

\* the test that ends the writer loop
writer_loop_over(r) == ~(r.completed_workers < r.effective_workers)

\* else: run_pairs_parallel starts the workers and fills the work queue
LaunchParallel ==
    /\ CanLaunch
    /\ load_pair_profiles(source) # << >>
    /\ \E w \in WorkersChoices \ {1}, q \in QueueSizes :
        LET r == launched(run, source, w, q)
            n == effective_workers(w, r.pair_profiles)
        IN  run' = [r EXCEPT
                !.pc = "parallel",
                !.effective_workers = n,
                !.worker = [k \in 1..MaxWorkers |->
                                IF k <= n THEN StartedWorker ELSE NoWorker],
                !.work_queue = work_queue_filled(r.pair_profiles, n)]
    /\ UNCHANGED <<cfg, source, store, engineVars>>

\* payload = work_queue.get(): a profile starts process_pair, None ends the loop
WorkerGet(w) ==
    /\ run.pc = "parallel"
    /\ run.worker[w].pc = "get"
    /\ run.work_queue # << >>
    /\ LET payload == Head(run.work_queue)
       IN  run' = [run EXCEPT
                !.work_queue = Tail(@),
                !.worker[w] =
                    [pc |-> "put",
                     todo |-> IF IsNone(payload) THEN <<worker_done_message(w)>>
                              ELSE run.effects[Val(payload).pair]]]
    /\ UNCHANGED <<cfg, source, store, engineVars>>

\* variant: _emit_rows of the worker inserts the batch itself as well
WorkerPut_inserts(w) ==
    /\ run.pc = "parallel"
    /\ run.worker[w].pc = "put"
    /\ Head(run.worker[w].todo).kind # "raise"
    /\ result_queue_has_room(run)
    /\ LET message == Head(run.worker[w].todo)
           rest == Tail(run.worker[w].todo)
       IN  /\ run' = [run EXCEPT
                    !.result_queue = Append(@, message),
                    !.worker[w] =
                        [pc |-> IF rest # << >> THEN "put"
                                ELSE IF message.kind \in {"worker_done", "worker_error"}
                                     THEN "exited"
                                     ELSE "get",
                         todo |-> rest]]
           /\ store' = IF message.kind = "rows"
                       THEN [store EXCEPT !.cleansed_market =
                                insert_rows_chunk(@, message.body)]
                       ELSE store
    /\ UNCHANGED <<cfg, source, engineVars>>

\* result_queue.put of a row batch, a summary, worker_done or worker_error
WorkerPut(w) ==
    /\ run.pc = "parallel"
    /\ run.worker[w].pc = "put"
    /\ Head(run.worker[w].todo).kind # "raise"
    /\ result_queue_has_room(run)
    /\ LET message == Head(run.worker[w].todo)
           rest == Tail(run.worker[w].todo)
       IN  run' = [run EXCEPT
                !.result_queue = Append(@, message),
                !.worker[w] =
                    [pc |-> IF rest # << >> THEN "put"
                            ELSE IF message.kind \in {"worker_done", "worker_error"}
                                 THEN "exited"
                                 ELSE "get",
                     todo |-> rest]]
    /\ UNCHANGED <<cfg, source, store, engineVars>>

\* except Exception as exc: the worker is left to report worker_error
WorkerRaise(w) ==
    /\ run.pc = "parallel"
    /\ run.worker[w].pc = "put"
    /\ Head(run.worker[w].todo).kind = "raise"
    /\ run' = [run EXCEPT !.worker[w].todo =
                <<worker_error_message(w, Head(run.worker[w].todo).body)>>]
    /\ UNCHANGED <<cfg, source, store, engineVars>>

WriterReceives(kind) ==
    /\ run.pc = "parallel"
    /\ ~writer_loop_over(run)
    /\ run.result_queue # << >>
    /\ Head(run.result_queue).kind = kind

\* variant: the writer inserts full batches only
WriterRows_full_batches_only ==
    /\ WriterReceives("rows")
    /\ store' = [store EXCEPT !.cleansed_market =
                    IF Len(Head(run.result_queue).body) < cfg.emit_batch_size
                    THEN @
                    ELSE insert_rows_chunk(@, Head(run.result_queue).body)]
    /\ run' = [run EXCEPT !.result_queue = Tail(@)]
    /\ UNCHANGED <<cfg, source, engineVars>>

\* kind == "rows": the writer inserts the batch
WriterRows ==
    /\ WriterReceives("rows")
    /\ store' = [store EXCEPT !.cleansed_market =
                    insert_rows_chunk(@, Head(run.result_queue).body)]
    /\ run' = [run EXCEPT !.result_queue = Tail(@)]
    /\ UNCHANGED <<cfg, source, engineVars>>

\* kind == "summary"
WriterSummary ==
    /\ WriterReceives("summary")
    /\ run' = [run EXCEPT !.summaries = Append(@, Head(run.result_queue).body),
                          !.result_queue = Tail(@)]
    /\ UNCHANGED <<cfg, source, store, engineVars>>

\* kind == "worker_done"
WriterDone ==
    /\ WriterReceives("worker_done")
    /\ run' = [run EXCEPT !.completed_workers = @ + 1,
                          !.result_queue = Tail(@)]
    /\ UNCHANGED <<cfg, source, store, engineVars>>

\* variant: the writer counts a failed worker as done and goes on
WriterError_counts_done ==
    /\ WriterReceives("worker_error")
    /\ run' = [run EXCEPT !.completed_workers = @ + 1,
                          !.result_queue = Tail(@)]
    /\ UNCHANGED <<cfg, source, store, engineVars>>

\* variant: before it raises, the writer inserts the batches still queued
RECURSIVE insert_queued_rows(_, _)
insert_queued_rows(table, queue) ==
    IF queue = << >> THEN table
    ELSE insert_queued_rows(
            IF Head(queue).kind = "rows"
            THEN insert_rows_chunk(table, Head(queue).body)
            ELSE table,
            Tail(queue))

WriterError_drains_queue ==
    /\ WriterReceives("worker_error")
    /\ run' = failed_with(run, [worker_id |-> Head(run.result_queue).body[1],
                                error |-> Head(run.result_queue).body[2]])
    /\ store' = [store EXCEPT !.cleansed_market =
                    insert_queued_rows(@, Tail(run.result_queue))]
    /\ UNCHANGED <<cfg, source, engineVars>>

\* kind == "worker_error": terminate and join the workers, raise
\* SystemExit(f"Worker {worker_id} failed: {error}")
WriterError ==
    /\ WriterReceives("worker_error")
    /\ run' = failed_with(run, [worker_id |-> Head(run.result_queue).body[1],
                                error |-> Head(run.result_queue).body[2]])
    /\ UNCHANGED <<cfg, source, store, engineVars>>

\* every worker is done: join them and return the summaries to main
ParallelReturn ==
    /\ run.pc = "parallel"
    /\ writer_loop_over(run)
    /\ run' = [run EXCEPT !.pc = "summaries",
                          !.work_queue = << >>,
                          !.result_queue = << >>,
                          !.worker = [k \in 1..MaxWorkers |-> NoWorker]]
    /\ UNCHANGED <<cfg, source, store, engineVars>>

NextRun ==
    \/ LaunchEmpty
    \/ LaunchSequential
    \/ SeqProcessPair
    \/ SeqEmitRows
    \/ SeqAppendSummary
    \/ SeqRaise
    \/ SeqLoopEnd
    \/ LaunchParallel
    \/ \E w \in 1..MaxWorkers : WorkerGet(w)
    \/ \E w \in 1..MaxWorkers : WorkerPut(w)
    \/ \E w \in 1..MaxWorkers : WorkerRaise(w)
    \/ WriterRows
    \/ WriterSummary
    \/ WriterDone
    \/ WriterError
    \/ ParallelReturn
    \/ InsertPairSummaries
    \/ InsertRunMetadata

SpecRun == InitRun /\ [][NextRun]_vars


\* the steps of an execution under way: the main process and its workers are
\* scheduled by the operating system, none of them waits forever while it
\* can run
RunStep ==
    \/ SeqProcessPair
    \/ SeqEmitRows
    \/ SeqAppendSummary
    \/ SeqRaise
    \/ SeqLoopEnd
    \/ \E w \in 1..MaxWorkers : WorkerGet(w)
    \/ \E w \in 1..MaxWorkers : WorkerPut(w)
    \/ \E w \in 1..MaxWorkers : WorkerRaise(w)
    \/ WriterRows
    \/ WriterSummary
    \/ WriterDone
    \/ WriterError
    \/ ParallelReturn
    \/ InsertPairSummaries
    \/ InsertRunMetadata

SpecRunFair == SpecRun /\ WF_vars(RunStep)

-----------------------------------------------------------------------------
(* Runs with --enable-dq, the default *)

\* a pair none of whose timestamps strftime can parse: in the scope of the
\* data-quality summaries, without a profile
UnparseableStream ==
    <<MarketTick(Some(UnparseableText), Some(10), TRUE, None, None)>>

DQSources ==
    UNION {[1..n -> RunStreams \cup {UnparseableStream}] : n \in 0..MaxPairs}

InitDQ ==
    /\ cfg \in {c \in RunConfigs : c.bin_seconds = 1}
    /\ source \in DQSources
    /\ run = [IdleRun EXCEPT !.enable_dq = TRUE]
    /\ store = EmptyStore
    /\ ticks = << >>
    /\ profile = None
    /\ pp = [status |-> "none"]

NextDQ ==
    \/ NextRun
    \/ InsertDQSummary
    \/ InsertDQRunSummary

SpecDQ == InitDQ /\ [][NextDQ]_vars

-----------------------------------------------------------------------------
(* The data-quality audit of input DBs with defective rows *)

\* the market_ticks rows of a pair, one table for each kind of pair: a clean
\* one with a price jump; one with a NULL timestamp, a repeated tick, a NULL
\* price and bid > ask; one with a zero price, a negative bid and a negative
\* price; one with an unparseable timestamp between two ticks
AuditStreams ==
    {<<Tick(0, 10), Tick(1, 20)>>,
     <<MarketTick(None, Some(10), TRUE, None, None),
       Tick(0, 10), Tick(0, 10),
       MarketTick(Some(1), None, TRUE, Some(5), Some(3))>>,
     <<MarketTick(Some(0), Some(0), TRUE, Some(-1), None),
       MarketTick(Some(1), Some(-10), TRUE, None, None),
       Tick(2, 10)>>,
     <<Tick(0, 10),
       MarketTick(Some(UnparseableText), Some(20), TRUE, None, None),
       Tick(2, 11)>>}

AuditSources ==
    UNION {[1..n -> AuditStreams \cup {UnparseableStream}] : n \in 0..MaxPairs}

InitAudit ==
    /\ cfg \in {c \in RunConfigs : c.bin_seconds = 1}
    /\ source \in AuditSources
    /\ run = [IdleRun EXCEPT !.enable_dq = TRUE]
    /\ store = EmptyStore
    /\ ticks = << >>
    /\ profile = None
    /\ pp = [status |-> "none"]

\* main with --workers 1 on these input DBs, where no pair raises
NextAudit ==
    \/ LaunchEmpty
    \/ LaunchSequential
    \/ SeqProcessPair
    \/ SeqEmitRows
    \/ SeqAppendSummary
    \/ SeqLoopEnd
    \/ InsertPairSummaries
    \/ InsertDQSummary
    \/ InsertDQRunSummary
    \/ InsertRunMetadata

SpecAudit == InitAudit /\ [][NextAudit]_vars

-----------------------------------------------------------------------------
(* collect_source_dq_summaries called again on the same input DB *)

\* returned: what each call has returned, as returned; dq_summaries: the
\* list of the last call, which its caller goes on to change
InitRepeat ==
    /\ cfg \in {c \in RunConfigs : c.bin_seconds = 1}
    /\ source \in AuditSources
    /\ run = [pc |-> "start", returned |-> << >>, dq_summaries |-> << >>]
    /\ store = EmptyStore
    /\ ticks = << >>
    /\ profile = None
    /\ pp = [status |-> "none"]

\* variant: a later call hands out the list of the call before
Audit_hands_out_old_list ==
    /\ Len(run.returned) < Cardinality(RunIds)
    /\ LET result == IF run.returned = << >>
                     THEN collect_source_dq_summaries(source)
                     ELSE run.dq_summaries
       IN  run' = [pc |-> "audited",
                   returned |-> Append(run.returned, result),
                   dq_summaries |-> result]
    /\ UNCHANGED <<cfg, source, store, engineVars>>

\* a call of collect_source_dq_summaries: a SELECT on the read-only
\* connection to the input DB, its rows made into new DQSummary objects
Audit ==
    /\ Len(run.returned) < Cardinality(RunIds)
    /\ LET result == collect_source_dq_summaries(source)
       IN  run' = [pc |-> "audited",
                   returned |-> Append(run.returned, result),
                   dq_summaries |-> result]
    /\ UNCHANGED <<cfg, source, store, engineVars>>

\* the caller sets issue_counter_sum in the objects of the list it was given
\* and writes them to the output DB
FinalizeAndInsert ==
    /\ run.pc = "audited"
    /\ LET finalized == finalize_dq_issue_counters(run.dq_summaries)
       IN  /\ run' = [run EXCEPT !.pc = "finalized", !.dq_summaries = finalized]
           /\ store' = [store EXCEPT !.cleansing_dq_summary =
                            insert_dq_summary(@, Len(run.returned), finalized)]
    /\ UNCHANGED <<cfg, source, engineVars>>

NextRepeat ==
    \/ Audit
    \/ FinalizeAndInsert

SpecRepeat == InitRepeat /\ [][NextRepeat]_vars

-----------------------------------------------------------------------------
(* Executions started in the same clock second *)

\* the executions a behaviour has at most when the clock may stand still
\* between two of them
CanRelaunch ==
    /\ run.pc \in {"done", "failed"}
    /\ run.executions < Cardinality(RunIds)

\* main started again while datetime.now() still gives the second of the
\* execution before, with the same --bin-seconds: strftime('%Y%m%d_%H%M%S')
\* and the bin size give the text they gave before, the same run_id
relaunched(r, src, workers, worker_queue_size) ==
    [launched(r, src, workers, worker_queue_size) EXCEPT
        !.run_id = r.run_id,
        !.effects = effects_of(src, r.run_id, load_pair_profiles(src), cfg)]

\* if not pair_profiles, in such an execution
RelaunchEmpty ==
    /\ CanRelaunch
    /\ load_pair_profiles(source) = << >>
    /\ \E q \in QueueSizes :
        LET r == relaunched(run, source, 1, q)
        IN  /\ store' = [store EXCEPT
                    !.cleansing_run_metadata[r.run_id] =
                        Some(run_metadata_row(r, cfg, << >>))]
            /\ run' = IF r.enable_dq THEN [r EXCEPT !.pc = "dq_summary"]
                       ELSE ended(r, "done", 0)
    /\ UNCHANGED <<cfg, source, engineVars>>

\* if args.workers == 1, in such an execution
RelaunchSequential ==
    /\ CanRelaunch
    /\ load_pair_profiles(source) # << >>
    /\ \E q \in QueueSizes :
        run' = [relaunched(run, source, 1, q) EXCEPT !.pc = "sequential", !.index = 1]
    /\ UNCHANGED <<cfg, source, store, engineVars>>

NextRerun ==
    \/ NextDQ
    \/ RelaunchEmpty
    \/ RelaunchSequential

SpecRerun == InitDQ /\ [][NextRerun]_vars

-----------------------------------------------------------------------------
(* Properties of a run, stated against the output DB *)

\* a row without its run identifier
Content(row) == [f \in DOMAIN row \ {"run_id"} |-> row[f]]

\* the Bin rows of a pair that a run left in cleansed_market
BinRowsOf(id, p) ==
    {Content(store.cleansed_market[<<id, p>>][k]) :
        k \in 1..Len(store.cleansed_market[<<id, p>>])}

BinRowCountOf(id, p) == Len(store.cleansed_market[<<id, p>>])

\* the PairSummary rows of a run, each with the number of its copies
PairSummariesOf(id) ==
    {<<Content(row), CopiesIn(row, store.cleansing_pair_summary)>> :
        row \in {x \in BagToSet(store.cleansing_pair_summary) : x.run_id = id}}

Ended(id) == ~IsNone(run.outcome[id])

Exit(id) == Val(run.outcome[id]).exit

\* C9: parallel/sequential equivalence. When a run with workers = 1 and a
\* run with workers = N > 1 over the same pairs, ticks and configuration have
\* both ended, whatever the interleaving of the workers and of the writer
\* was, they ended alike, with the same PairSummary rows, and, both
\* completed, with the same Bin rows for every pair, up to the order of
\* insertion and the run identifier.
ParallelSequentialEquivalence ==
    \A a \in RunIds, b \in RunIds :
        (/\ Ended(a) /\ Val(run.outcome[a]).workers = 1
         /\ Ended(b) /\ Val(run.outcome[b]).workers > 1)
        => /\ Exit(a) = Exit(b)
           /\ PairSummariesOf(a) = PairSummariesOf(b)
           /\ Exit(a) = 0 =>
                \A p \in PairIds :
                    /\ BinRowsOf(a, p) = BinRowsOf(b, p)
                    /\ BinRowCountOf(a, p) = BinRowCountOf(b, p)

\* both runs completed on two pairs, the second one with two workers at work
ParallelSequentialWitness ==
    /\ Ended(1) /\ Val(run.outcome[1]).workers = 1 /\ Exit(1) = 0
    /\ Ended(2) /\ Val(run.outcome[2]).workers > 1 /\ Exit(2) = 0
    /\ Len(source) >= 2
    /\ \A p \in 1..Len(source) : BinRowCountOf(2, p) > 0
    /\ PairSummariesOf(2) # {}

\* process_pair raises on some pair of the input DB
SomePairRaises ==
    LET pair_profiles == load_pair_profiles(source)
    IN  \E k \in 1..Len(pair_profiles) :
            process_pair(cursor_of(source[pair_profiles[k].pair]),
                         pair_profiles[k].profile, cfg).status = "raised"

UnderWay(id) ==
    /\ run.run_id = id
    /\ run.pc \in {"sequential", "parallel", "summaries", "metadata"}

\* process_pair raises on some pair of the run under way
RaisesUnderWay(id) ==
    /\ UnderWay(id)
    /\ \E p \in DOMAIN run.effects :
            run.effects[p][Len(run.effects[p])].kind = "raise"

NothingCommitted(id) ==
    /\ IsNone(store.cleansing_run_metadata[id])
    /\ PairSummariesOf(id) = {}

\* C10: failure isolation. If process_pair raises on a pair, in a worker or
\* in the sequential loop, then no RunMetadata row and no PairSummary row is
\* ever committed for the run identifier, and the run, once started, ends,
\* with a non-zero exit status.
FailureIsolation ==
    /\ [](SomePairRaises =>
            \A id \in RunIds :
                /\ NothingCommitted(id)
                /\ Ended(id) => Exit(id) # 0)
    /\ \A id \in RunIds :
            RaisesUnderWay(id) ~> (Ended(id) /\ Exit(id) # 0)

\* a parallel run failed on one pair after the writer had inserted rows for
\* the run
FailureIsolationWitness ==
    /\ Ended(2) /\ Val(run.outcome[2]).workers > 1 /\ Exit(2) # 0
    /\ Ended(1) /\ Exit(1) # 0
    /\ \E p \in PairIds : BinRowCountOf(2, p) > 0
    /\ NothingCommitted(2)

-----------------------------------------------------------------------------
(* A worker process that ends without a message *)

\* the worker process ends and puts nothing on the result queue: its
\* sqlite3.connect, which stands before the try, raises when the process
\* starts, or the process is killed while it waits for work or handles a pair
WorkerDies(w) ==
    /\ run.pc = "parallel"
    /\ run.worker[w].pc \in {"get", "put"}
    /\ \A v \in 1..MaxWorkers : run.worker[v].pc # "dead"
    /\ run' = [run EXCEPT !.worker[w] = [pc |-> "dead", todo |-> << >>]]
    /\ UNCHANGED <<cfg, source, store, engineVars>>

NextCrash ==
    \/ NextRun
    \/ \E w \in 1..MaxWorkers : WorkerDies(w)

SpecCrash == InitRun /\ [][NextCrash]_vars

SpecCrashFair == SpecCrash /\ WF_vars(RunStep)

-----------------------------------------------------------------------------
(* Properties of the parallel mode *)

WorkerStep ==
    \E w \in 1..MaxWorkers : WorkerGet(w) \/ WorkerPut(w) \/ WorkerRaise(w)

\* the result queue after the step is the one before it, with at most one
\* message more at its tail
PutsOnly ==
    \/ run'.result_queue = run.result_queue
    \/ /\ Len(run'.result_queue) = Len(run.result_queue) + 1
       /\ SubSeq(run'.result_queue, 1, Len(run.result_queue)) = run.result_queue

\* C11: single-writer discipline. In parallel mode a step of a worker changes
\* no table of the output DB and not the summaries the writer collects: what
\* it produces only goes to the tail of the result queue. Every change of
\* the output DB during the parallel phase is the writer inserting the batch
\* it took from the head of the result queue.
SingleWriter ==
    [][run.pc = "parallel" =>
        /\ WorkerStep =>
            /\ store' = store
            /\ run'.summaries = run.summaries
            /\ PutsOnly
        /\ store' # store =>
            /\ WriterRows
            /\ run.result_queue # << >>
            /\ store' = [store EXCEPT !.cleansed_market =
                            insert_rows_chunk(@, Head(run.result_queue).body)]
      ]_vars

\* the writer has inserted rows of the run while a worker still has a batch
\* to put and another message waits in the queue
SingleWriterWitness ==
    /\ run.pc = "parallel"
    /\ \E p \in PairIds : BinRowCountOf(run.run_id, p) > 0
    /\ \E w \in 1..MaxWorkers :
            /\ run.worker[w].pc = "put"
            /\ Head(run.worker[w].todo).kind = "rows"
    /\ run.result_queue # << >>

\* the worker has failed: its process is gone, or it is in or on its way to
\* the except branch
WorkerFailed(w) ==
    \/ run.worker[w].pc = "dead"
    \/ /\ run.worker[w].pc = "put"
       /\ Head(run.worker[w].todo).kind \in {"raise", "worker_error"}

\* C12: abort liveness. Whenever a worker of a run has failed, at start-up,
\* while it handles a pair, or by ending without a message, the run
\* eventually ends with an error (its workers terminated with it).
AbortLiveness ==
    \A id \in RunIds :
        (/\ run.run_id = id
         /\ run.pc = "parallel"
         /\ \E w \in 1..MaxWorkers : WorkerFailed(w))
        ~> (Ended(id) /\ Exit(id) # 0)

\* the writer waits in result_queue.get() for a message nobody will send:
\* every worker has exited or is dead, the queue is empty, and the loop
\* still counts fewer worker_done than workers
WriterWaitsForever ==
    /\ run.pc = "parallel"
    /\ \E w \in 1..MaxWorkers : run.worker[w].pc = "dead"
    /\ \A w \in 1..MaxWorkers : run.worker[w].pc \in {"none", "dead", "exited"}
    /\ run.result_queue = << >>
    /\ ~writer_loop_over(run)

\* the pairs load_pair_profiles selects
SelectedPairs ==
    {load_pair_profiles(source)[k].pair : k \in 1..Len(load_pair_profiles(source))}

PairEpochs(p) ==
    {Val(cursor_of(source[p])[i].ts_epoch_s) :
        i \in ParseableIdx(cursor_of(source[p]))}

\* the buckets from the one of the pair's first tick to the one of its last
DenseBuckets(p) ==
    LET lo == SetMin(PairEpochs(p))
        hi == SetMax(PairEpochs(p))
    IN  {b \in (lo - cfg.bin_seconds + 1)..hi : b % cfg.bin_seconds = 0}

FullyProcessed(id, p) ==
    /\ {row.bucket_epoch_s : row \in BinRowsOf(id, p)} = DenseBuckets(p)
    /\ BinRowCountOf(id, p) = Cardinality(DenseBuckets(p))
    /\ \E x \in PairSummariesOf(id) :
            /\ x[1].pair = p
            /\ x[2] = 1
            /\ x[1].bins_total = Cardinality(DenseBuckets(p))
            /\ \A y \in PairSummariesOf(id) : y[1].pair = p => y = x

\* C13: no partial success. In every reachable state, a run identifier that
\* has a RunMetadata record has, for every selected pair, the complete dense
\* set of Bin rows and one PairSummary committed under it.
NoPartialSuccess ==
    \A id \in RunIds :
        ~IsNone(store.cleansing_run_metadata[id]) =>
            \A p \in SelectedPairs : FullyProcessed(id, p)

\* a parallel run over two pairs has written its metadata record
NoPartialSuccessWitness ==
    /\ ~IsNone(store.cleansing_run_metadata[2])
    /\ Val(store.cleansing_run_metadata[2]).workers > 1
    /\ Cardinality(SelectedPairs) >= 2
    /\ \A p \in SelectedPairs : Cardinality(DenseBuckets(p)) >= 1

-----------------------------------------------------------------------------
(* Properties of the order of the commits of a run *)

\* the rows a run id has in each table of the output DB
BinTableOf(st, id) == [p \in PairIds |-> st.cleansed_market[<<id, p>>]]

PairSummaryTableOf(st, id) ==
    {<<row, CopiesIn(row, st.cleansing_pair_summary)>> :
        row \in {x \in BagToSet(st.cleansing_pair_summary) : x.run_id = id}}

DQSummaryTableOf(st, id) == st.cleansing_dq_summary[id]

MetadataWritten(id) == ~IsNone(store.cleansing_run_metadata[id])

\* C14: commit ordering. In every run, a run without pairs included, the
\* RunMetadata row is written once and after all the Bin, PairSummary and
\* DQSummary rows of the run: once the RunMetadata row of a run id is in the
\* output DB, no step commits a Bin, PairSummary or DQSummary row of that run id
\* or writes its RunMetadata row again.
CommitOrdering ==
    [][\A id \in RunIds :
        MetadataWritten(id) =>
            /\ BinTableOf(store', id) = BinTableOf(store, id)
            /\ PairSummaryTableOf(store', id) = PairSummaryTableOf(store, id)
            /\ DQSummaryTableOf(store', id) = DQSummaryTableOf(store, id)
            /\ store'.cleansing_run_metadata[id] = store.cleansing_run_metadata[id]]_vars

\* a run without pairs whose DQSummary rows are in the output DB next to its
\* RunMetadata row: they were committed after it
CommitOrderingWitness ==
    \E id \in RunIds :
        /\ Ended(id)
        /\ Exit(id) = 0
        /\ MetadataWritten(id)
        /\ Val(store.cleansing_run_metadata[id]).total_pairs = 0
        /\ store.cleansing_dq_summary[id] # << >>

-----------------------------------------------------------------------------
(* Properties of the run identifier *)

\* no row of any table of the output DB carries the run id
NoRowsUnder(st, id) ==
    /\ \A p \in PairIds : st.cleansed_market[<<id, p>>] = << >>
    /\ PairSummaryTableOf(st, id) = {}
    /\ st.cleansing_dq_summary[id] = << >>
    /\ IsNone(st.cleansing_dq_run_summary[id])
    /\ IsNone(st.cleansing_run_metadata[id])

\* a step in which main starts an execution
ExecutionStarts == run'.executions = run.executions + 1

\* C15: run identifier uniqueness. Two executions, also two started in the
\* same clock second with the same bin size, never obtain the same run id,
\* and the rows of one are never mixed with the rows of another: the run id
\* an execution starts with is not the run id of the execution before it, and
\* the output DB holds no row under it.
RunIdUniqueness ==
    [][ExecutionStarts =>
        /\ run'.run_id # run.run_id
        /\ NoRowsUnder(store, run'.run_id)]_vars

\* two executions have run under one run id, and cleansed_market holds the
\* same Bin row of that run id twice
RunIdCollisionWitness ==
    /\ run.executions > run.run_id
    /\ run.pc = "done"
    /\ \E p \in PairIds :
        \E j, k \in 1..Len(store.cleansed_market[<<run.run_id, p>>]) :
            /\ j < k
            /\ store.cleansed_market[<<run.run_id, p>>][j]
                = store.cleansed_market[<<run.run_id, p>>][k]

\* Bin, PairSummary, DQSummary and RunMetadata rows exist under the run id
RecordsExist(id) ==
    /\ \E p \in PairIds : store.cleansed_market[<<id, p>>] # << >>
    /\ PairSummaryTableOf(store, id) # {}
    /\ store.cleansing_dq_summary[id] # << >>
    /\ MetadataWritten(id)

\* C16: immutability per run identifier. Once Bin, PairSummary, DQSummary and
\* RunMetadata rows exist for a run id, a later write under that run id is
\* rejected and the rows stay as they are: no step adds a Bin or PairSummary
\* row, replaces the RunMetadata row or deletes or rewrites the DQSummary rows
\* of that run id.
ImmutablePerRunId ==
    [][\A id \in RunIds :
        RecordsExist(id) =>
            /\ BinTableOf(store', id) = BinTableOf(store, id)
            /\ PairSummaryTableOf(store', id) = PairSummaryTableOf(store, id)
            /\ DQSummaryTableOf(store', id) = DQSummaryTableOf(store, id)
            /\ store'.cleansing_run_metadata[id]
                = store.cleansing_run_metadata[id]]_vars

\* a second execution under the run id of a complete run has ended with
\* exit status 0 and every PairSummary row of the run id is there twice
ImmutablePerRunIdWitness ==
    /\ run.executions > run.run_id
    /\ run.pc = "done"
    /\ RecordsExist(run.run_id)
    /\ \A x \in PairSummaryTableOf(store, run.run_id) : x[2] = 2

-----------------------------------------------------------------------------
(* main: from the command line to the first write *)

\* the values of the arguments main validates: for each, one that main
\* refuses and one that it accepts
StartArgs ==
    [bin_seconds : {0, 1},
     max_forward_fill_s : {-1, 2},
     stale_after_s : {-1, 2},
     insert_batch_size : {0, 2},
     workers : {0, 1},
     worker_queue_size : {-1, 0},
     dq_outlier_threshold_pct : {<<0, 1>>, DqOutlierThreshold}]

\* the input DB: no file, a file without the table market_ticks, a file with it
InputDBs ==
    {[exists |-> FALSE, market_ticks |-> FALSE],
     [exists |-> TRUE, market_ticks |-> FALSE],
     [exists |-> TRUE, market_ticks |-> TRUE]}

\* the output DB before the execution: no file, and so no table and no row
NoOutputDB == [file |-> FALSE, tables |-> {}, rows |-> 0]

\* the tables and indexes ensure_output_schema creates
OutputTables ==
    {"cleansed_market", "cleansing_pair_summary", "cleansing_run_metadata",
     "cleansing_dq_summary", "cleansing_dq_run_summary"}

\* the checks at the head of main, any of which raises SystemExit
args_refused(args) ==
    \/ args.bin_seconds <= 0
    \/ args.max_forward_fill_s < 0
    \/ args.stale_after_s < 0
    \/ args.insert_batch_size <= 0
    \/ args.workers <= 0
    \/ args.worker_queue_size < 0
    \/ args.dq_outlier_threshold_pct[1] <= 0

\* assert_input_schema raises SystemExit when sqlite_master has no table
\* market_ticks
assert_input_schema_passes_all(src) == FALSE

assert_input_schema_raises(src) == ~src.market_ticks

\* SystemExit with a message: the process exits with status 1
exited(code) == [pc |-> "exited", exit |-> code, pairs_processed |-> 0]

InitStart ==
    /\ cfg \in StartArgs
    /\ source \in InputDBs
    /\ store = NoOutputDB
    /\ run = [pc |-> "args", exit |-> 0, pairs_processed |-> 0]
    /\ ticks = << >>
    /\ profile = None
    /\ pp = [status |-> "none"]

\* the checks of the arguments
ValidateArgs ==
    /\ run.pc = "args"
    /\ run' = IF args_refused(cfg) THEN exited(1) ELSE [run EXCEPT !.pc = "open"]
    /\ UNCHANGED <<cfg, source, store, engineVars>>

\* Input DB not found, or: the directory of the output DB, the log file, the
\* run_id and the two connections; sqlite3.connect creates the file of the
\* output DB, empty
OpenDatabases ==
    /\ run.pc = "open"
    /\ IF ~source.exists
       THEN /\ run' = exited(1)
            /\ store' = store
       ELSE /\ run' = [run EXCEPT !.pc = "assert_input_schema"]
            /\ store' = [store EXCEPT !.file = TRUE]
    /\ UNCHANGED <<cfg, source, engineVars>>

\* assert_input_schema(source_connection); on SystemExit the finally block
\* closes both connections
AssertInputSchema ==
    /\ run.pc = "assert_input_schema"
    /\ run' = IF assert_input_schema_raises(source) THEN exited(1)
              ELSE [run EXCEPT !.pc = "ensure_output_schema"]
    /\ UNCHANGED <<cfg, source, store, engineVars>>

\* ensure_output_schema(output_connection): CREATE TABLE IF NOT EXISTS ...
EnsureOutputSchema ==
    /\ run.pc = "ensure_output_schema"
    /\ store' = [store EXCEPT !.tables = OutputTables]
    /\ run' = [run EXCEPT !.pc = "work"]
    /\ UNCHANGED <<cfg, source, engineVars>>

\* the rest of main: the pairs are loaded and processed, rows and the
\* RunMetadata row are written, main returns
Work ==
    /\ run.pc = "work"
    /\ \E pairs \in 0..MaxPairs :
        /\ store' = [store EXCEPT !.rows = pairs + 1]
        /\ run' = [pc |-> "exited", exit |-> 0, pairs_processed |-> pairs]
    /\ UNCHANGED <<cfg, source, engineVars>>

NextStart ==
    \/ ValidateArgs
    \/ OpenDatabases
    \/ AssertInputSchema
    \/ EnsureOutputSchema
    \/ Work

SpecStart == InitStart /\ [][NextStart]_vars

\* the malformed configurations
Malformed(args) ==
    \/ args.bin_seconds <= 0
    \/ args.max_forward_fill_s < 0
    \/ args.stale_after_s < 0
    \/ args.insert_batch_size <= 0
    \/ args.workers <= 0
    \/ args.dq_outlier_threshold_pct[1] <= 0

NothingWritten == store.tables = {} /\ store.rows = 0

\* C17: fatal errors precede work. With a malformed configuration or an input
\* DB without the table market_ticks, the run never reaches the processing of
\* a pair, no table, row or metadata record is ever written to the output DB,
\* and when the run has ended it has ended with an error.
FatalErrorsPrecedeWork ==
    (Malformed(cfg) \/ ~source.market_ticks) =>
        /\ run.pc \notin {"ensure_output_schema", "work"}
        /\ run.pairs_processed = 0
        /\ NothingWritten
        /\ run.pc = "exited" => run.exit # 0

\* a run on an input DB without market_ticks, with arguments that pass every
\* check, has opened the output DB and has ended with an error
FatalErrorsPrecedeWorkWitness ==
    /\ ~Malformed(cfg)
    /\ source.exists
    /\ ~source.market_ticks
    /\ store.file
    /\ run.pc = "exited"
    /\ run.exit = 1

-----------------------------------------------------------------------------
(* Properties of the handling of errors in the data *)

\* the rows of the cursor that are not usable: the timestamp text does not
\* parse, or the effective price is not a number. Rows with a NULL timestamp
\* or a NULL effective price never reach the cursor (WHERE of the query of
\* process_pair).
Unusable(i) == IsNone(ticks[i].ts_epoch_s) \/ ~ticks[i].numeric

\* when process_pair has returned, the rows binned are the usable ones
UnusableRowsExcluded ==
    pp.status = "returned" =>
        \A r \in RowSet :
            r.tick_count_in_bin =
                Cardinality({i \in 1..Len(ticks) :
                    /\ ~Unusable(i)
                    /\ BucketOf(EpochOf(i)) = r.bucket_epoch_s})

\* C18: per-row data errors are never fatal. A row whose timestamp is
\* unparseable or whose effective price is not a usable number is left out of
\* the binning and process_pair still returns: it never raises.
PerRowErrorsNeverFatal ==
    /\ pp.status # "raised"
    /\ UnusableRowsExcluded

\* process_pair has raised on a row whose effective price is text, after it
\* had finalized rows of the pair
PerRowErrorsNeverFatalWitness ==
    /\ pp.status = "raised"
    /\ \E i \in 1..Len(ticks) : ~IsNone(ticks[i].ts_epoch_s) /\ ~ticks[i].numeric
    /\ RowsSoFar # << >>

-----------------------------------------------------------------------------
(* Properties of a run without pairs *)

\* C19: empty run. When no pair passes the filters the run ends successfully:
\* it writes a RunMetadata row with total_pairs = 0 and every row total 0,
\* writes no Bin row and no PairSummary row, and starts no worker.
EmptyRun ==
    load_pair_profiles(source) = << >> =>
        /\ run.pc # "failed"
        /\ \A w \in 1..MaxWorkers : run.worker[w].pc = "none"
        /\ \A id \in RunIds :
            /\ \A p \in PairIds : store.cleansed_market[<<id, p>>] = << >>
            /\ PairSummaryTableOf(store, id) = {}
            /\ Ended(id) =>
                /\ Exit(id) = 0
                /\ MetadataWritten(id)
                /\ LET md == Val(store.cleansing_run_metadata[id])
                   IN  /\ md.total_pairs = 0
                       /\ md.total_rows = 0
                       /\ md.observed_rows = 0
                       /\ md.forward_fill_rows = 0
                       /\ md.interpolation_rows = 0
                       /\ md.missing_rows = 0

\* on an input DB with rows none of which passes the filters, a run with
\* --workers 1 and a run with more workers have both ended
EmptyRunWitness ==
    /\ source # << >>
    /\ load_pair_profiles(source) = << >>
    /\ \A id \in RunIds : Ended(id)
    /\ \E id \in RunIds : Val(run.outcome[id]).workers > 1

-----------------------------------------------------------------------------
(* Properties of the batches of a pair *)

\* C20: output batching. Every batch handed to emit_rows is non-empty and has
\* at most emit_batch_size rows; rows wait only while they are fewer than
\* emit_batch_size and none waits after the return, so the last batch is
\* flushed even when under-sized; the batches in the order of emission,
\* followed by the waiting rows, are the finalized bins in their order, each
\* once: as many rows as bins were finalized, the k-th row for the k-th
\* bucket of the pair.
OutputBatching ==
    /\ \A k \in 1..Len(pp.emitted) :
        /\ pp.emitted[k] # << >>
        /\ Len(pp.emitted[k]) <= cfg.emit_batch_size
    /\ Len(pp.rows_to_emit) < cfg.emit_batch_size
    /\ Len(Flatten(pp.emitted)) + Len(pp.rows_to_emit) = pp.bins_total
    /\ \A k \in 1..Len(RowsSoFar) :
        RowsSoFar[k].bucket_epoch_s
            = BucketOf(profile.min_epoch_s) + (k - 1) * cfg.bin_seconds
    /\ pp.status = "returned" =>
        /\ pp.rows_to_emit = << >>
        /\ Len(Flatten(pp.emitted)) = Val(pp.summary).bins_total

\* a returned pair with full batches and a last batch of fewer rows
OutputBatchingWitness ==
    /\ pp.status = "returned"
    /\ Len(pp.emitted) >= 2
    /\ \A k \in 1..(Len(pp.emitted) - 1) :
        Len(pp.emitted[k]) = cfg.emit_batch_size
    /\ Len(pp.emitted[Len(pp.emitted)]) < cfg.emit_batch_size

-----------------------------------------------------------------------------
(* Properties of the data-quality summaries *)

\* the observed Bin rows of a pair in a run, in the order of their buckets
\* (the order of insertion)
ObservedBins(id, p) ==
    SelectSeq(store.cleansed_market[<<id, p>>],
              LAMBDA row : row.fill_method = "observed")

\* the observed Bin rows whose price is further than the threshold, as a
\* part of the price before, from the price of the observed row before
OutlierReturns(id, p) ==
    LET obs == ObservedBins(id, p)
    IN  Cardinality({k \in 2..Len(obs) :
            LET price == Val(obs[k].price)
                prev == Val(obs[k - 1].price)
            IN  /\ prev[1] # 0
                /\ Abs(price[1] * prev[2] - prev[1] * price[2]) * DqOutlierThreshold[2]
                    > DqOutlierThreshold[1] * Abs(prev[1] * price[2])})

\* C21: issue counter sum. In every DQSummary row a run has written,
\* issue_counter_sum is the sum of the seven integrity counters of the pair
\* (NULL timestamp, unparseable timestamp, NULL price, non-positive price,
\* negative values, bid > ask, duplicates) and of outlier_return_count, and
\* outlier_return_count is the number of outlier returns among the observed
\* Bin rows of the pair in this run.
IssueCounterSum ==
    \A id \in RunIds :
        \A k \in 1..Len(store.cleansing_dq_summary[id]) :
            LET dq == store.cleansing_dq_summary[id][k]
            IN  /\ dq.outlier_return_count = OutlierReturns(id, dq.pair)
                /\ dq.issue_counter_sum =
                        dq.null_ingestion_ts_count
                        + dq.invalid_ingestion_ts_count
                        + dq.null_effective_price_count
                        + dq.non_positive_effective_price_count
                        + dq.rows_with_negative_values_count
                        + dq.bid_gt_ask_count
                        + dq.duplicate_tick_count
                        + dq.outlier_return_count

\* a run has written two DQSummary rows: one of a pair with an outlier
\* return and nothing else (sum 1), one of a pair with five kinds of defect
\* in the source and no outlier return
IssueCounterSumWitness ==
    \E id \in RunIds :
        /\ Len(store.cleansing_dq_summary[id]) = 2
        /\ \E k \in 1..2 :
            LET dq == store.cleansing_dq_summary[id][k]
            IN  dq.outlier_return_count = 1 /\ dq.issue_counter_sum = 1
        /\ \E k \in 1..2 :
            LET dq == store.cleansing_dq_summary[id][k]
            IN  /\ dq.null_ingestion_ts_count = 1
                /\ dq.null_effective_price_count = 1
                /\ dq.bid_gt_ask_count = 1
                /\ dq.duplicate_tick_count = 1
                /\ dq.outlier_return_count = 0
                /\ dq.issue_counter_sum = 4

-----------------------------------------------------------------------------
(* Properties of a pair whose ticks fall in one bucket *)

SingleBucket == BucketOf(profile.min_epoch_s) = BucketOf(profile.max_epoch_s)

\* C23: single-bucket pair. A pair whose min_epoch and max_epoch fall in the
\* same bucket, a pair with a single tick among them, produces exactly one
\* Bin row: the row of that bucket, with fill_method observed and
\* tick_count_in_bin the number of the ticks of the pair (the rows with a
\* timestamp that parses; the others are skipped).
SingleBucketPair ==
    SingleBucket =>
        /\ Len(RowsSoFar) <= 1
        /\ pp.status = "returned" =>
            /\ Len(Flatten(pp.emitted)) = 1
            /\ Flatten(pp.emitted)[1].bucket_epoch_s = BucketOf(profile.min_epoch_s)
            /\ Flatten(pp.emitted)[1].fill_method = "observed"
            /\ Flatten(pp.emitted)[1].tick_count_in_bin
                    = Cardinality(ParseableIdx(ticks))

\* a returned pair with ticks at two epochs of one bucket and a row whose
\* timestamp does not parse
SingleBucketPairWitness ==
    /\ SingleBucket
    /\ pp.status = "returned"
    /\ profile.min_epoch_s < profile.max_epoch_s
    /\ Cardinality(ParseableIdx(ticks)) < Len(ticks)

-----------------------------------------------------------------------------
(* Properties of the error a failed run surfaces *)

\* the pairs on which process_pair raises
RaisingPairs ==
    {p \in SelectedPairs :
        \E k \in 1..Len(load_pair_profiles(source)) :
            /\ load_pair_profiles(source)[k].pair = p
            /\ process_pair(cursor_of(source[p]),
                            load_pair_profiles(source)[k].profile,
                            cfg).status = "raised"}

FailedInParallel(id) ==
    /\ Ended(id)
    /\ Exit(id) # 0
    /\ Val(run.outcome[id]).workers > 1

\* C24: when a worker fails while it processes a pair, the error surfaced to
\* the caller of the run names the pair that failed, together with the
\* error.
WorkerErrorNamesPair ==
    \A id \in RunIds :
        FailedInParallel(id) =>
            LET surfaced == Val(Val(run.outcome[id]).error)
            IN  /\ "error" \in DOMAIN surfaced
                /\ "pair" \in DOMAIN surfaced
                /\ surfaced.pair \in RaisingPairs

\* a parallel run on an input DB with two pairs, on one of which
\* process_pair raises, has ended with the worker's number and the text of
\* the exception
WorkerErrorNamesPairWitness ==
    \E id \in RunIds :
        /\ FailedInParallel(id)
        /\ Len(source) = 2
        /\ Cardinality(RaisingPairs) = 1
        /\ DOMAIN Val(Val(run.outcome[id]).error) = {"worker_id", "error"}

-----------------------------------------------------------------------------
(* Properties of age_seconds and is_stale *)

\* the row finalized last
LastRow == RowsSoFar[Len(RowsSoFar)]

\* C25: interpolated bins. For every interpolated bin age_seconds is the
\* smaller of the distance to the last known tick and the distance to the
\* next tick, is_stale is set exactly when that age is larger than
\* stale_after_s, and finalizing the bin leaves last_known_* alone: after it
\* they are still the price and the epoch of the last tick before the bucket,
\* not the interpolated value.
InterpolatedAge ==
    /\ \A r \in RowSet :
        r.fill_method = "interpolation" =>
            /\ r.age_seconds = Some(Min(PrevAge(r), NextAge(r)))
            /\ r.is_stale = 1 <=> Min(PrevAge(r), NextAge(r)) > cfg.stale_after_s
            /\ r.is_stale \in {0, 1}
    /\ (RowsSoFar # << >> /\ LastRow.fill_method = "interpolation") =>
        LET i0 == LastOf(TicksBefore(LastRow.bucket_epoch_s))
        IN  /\ pp.last_known_price = Some(PriceOf(i0))
            /\ pp.last_known_ts_epoch_s = Some(EpochOf(i0))
            /\ pp.last_known_ts_utc = Some(i0)

\* a stale interpolated bin, two seconds from the ticks on either side, whose
\* price is not the last known price, finalized last
InterpolatedAgeWitness ==
    /\ RowsSoFar # << >>
    /\ LastRow.fill_method = "interpolation"
    /\ LastRow.is_stale = 1
    /\ PrevAge(LastRow) = 2
    /\ NextAge(LastRow) = 2
    /\ LastRow.price # pp.last_known_price

\* C26: staleness. Every observed bin has age_seconds 0 and is not stale;
\* every forward_fill bin has age_seconds = bucket epoch - epoch of the last
\* known tick and is stale exactly when that age is larger than
\* stale_after_s, an age equal to stale_after_s not being stale, whatever
\* max_forward_fill_s is.
Staleness ==
    \A r \in RowSet :
        /\ r.fill_method = "observed" =>
            r.age_seconds = Some(0) /\ r.is_stale = 0
        /\ r.fill_method = "forward_fill" =>
            /\ r.age_seconds = Some(PrevAge(r))
            /\ r.is_stale = (IF PrevAge(r) > cfg.stale_after_s THEN 1 ELSE 0)

\* two forward-filled bins of one pair: one of age stale_after_s, not stale,
\* and one of a larger age that max_forward_fill_s still allows, stale
StalenessWitness ==
    /\ \E r \in RowSet :
        /\ r.fill_method = "forward_fill"
        /\ PrevAge(r) = cfg.stale_after_s
        /\ r.is_stale = 0
    /\ \E r \in RowSet :
        /\ r.fill_method = "forward_fill"
        /\ PrevAge(r) > cfg.stale_after_s
        /\ PrevAge(r) <= cfg.max_forward_fill_s
        /\ r.is_stale = 1

-----------------------------------------------------------------------------
(* Properties of the fields of a row *)

\* C27: field consistency of every emitted row. is_missing is set exactly
\* when fill_method is missing, exactly when price is NULL, exactly when
\* age_seconds is NULL; the source timestamp is absent exactly when
\* fill_method is interpolation or missing; tick_count_in_bin > 0 exactly
\* when fill_method is observed; and every missing row is flagged is_stale.
RowFieldConsistency ==
    \A r \in RowSet :
        /\ r.is_missing \in {0, 1}
        /\ r.is_stale \in {0, 1}
        /\ r.is_missing = 1 <=> r.fill_method = "missing"
        /\ r.is_missing = 1 <=> IsNone(r.price)
        /\ r.is_missing = 1 <=> IsNone(r.age_seconds)
        /\ IsNone(r.source_ingestion_ts_utc)
                <=> r.fill_method \in {"interpolation", "missing"}
        /\ IsNone(r.source_ingestion_epoch_s)
                <=> r.fill_method \in {"interpolation", "missing"}
        /\ r.tick_count_in_bin > 0 <=> r.fill_method = "observed"
        /\ r.fill_method = "missing" => r.is_stale = 1

\* the rows of a returned pair have been emitted and show all four fill
\* methods between them
RowFieldConsistencyWitness ==
    /\ pp.status = "returned"
    /\ \A m \in FillMethods :
        \E k \in 1..Len(Flatten(pp.emitted)) :
            Flatten(pp.emitted)[k].fill_method = m

-----------------------------------------------------------------------------
(* Properties of the distribution of the pairs to the workers *)

\* the pairs still in the work queue, and the sentinels in it
QueuedPairs(r) ==
    {Val(r.work_queue[k]).pair :
        k \in {j \in 1..Len(r.work_queue) : ~IsNone(r.work_queue[j])}}

QueuedSentinels(r) ==
    Cardinality({k \in 1..Len(r.work_queue) : IsNone(r.work_queue[k])})

\* process_pair raises on no pair of the run
NoPairRaises(r) ==
    \A p \in DOMAIN r.effects : r.effects[p][Len(r.effects[p])].kind # "raise"

\* the worker has taken its sentinel: it is about to report done or has
\* exited after it
TookSentinel(r, w) ==
    \/ r.worker[w].todo = <<worker_done_message(w)>>
    \/ r.worker[w].pc = "exited" /\ NoPairRaises(r)

\* what holds of the work queue and the workers while the run is parallel
WellDistributed(r) ==
    \* a pair is in the queue once at most
    /\ \A j, k \in 1..Len(r.work_queue) :
        (j # k /\ ~IsNone(r.work_queue[j]) /\ ~IsNone(r.work_queue[k]))
            => Val(r.work_queue[j]).pair # Val(r.work_queue[k]).pair
    \* the sentinels are behind every pair
    /\ \A j, k \in 1..Len(r.work_queue) :
        (j < k /\ IsNone(r.work_queue[j])) => IsNone(r.work_queue[k])
    \* a worker that waits for work holds no pair
    /\ \A w \in 1..MaxWorkers : r.worker[w].pc = "get" => r.worker[w].todo = << >>
    \* without a failing pair: one sentinel for every worker that has not
    \* taken one
    /\ NoPairRaises(r) =>
        QueuedSentinels(r)
            + Cardinality({w \in 1..r.effective_workers : TookSentinel(r, w)})
            = r.effective_workers

\* a step that takes the head of the work queue gives it to one worker that
\* was waiting: a pair to be processed, or, when no pair is left in the queue,
\* the sentinel that ends the worker
TakenByOne ==
    /\ run.work_queue # << >>
    /\ run'.work_queue = Tail(run.work_queue)
    /\ \E w \in 1..run.effective_workers :
        /\ run.worker[w].pc = "get"
        /\ \A v \in 1..MaxWorkers \ {w} : run'.worker[v] = run.worker[v]
        /\ IF IsNone(Head(run.work_queue))
           THEN /\ QueuedPairs(run) = {}
                /\ run'.worker[w].todo = <<worker_done_message(w)>>
           ELSE run'.worker[w].todo = run.effects[Val(Head(run.work_queue)).pair]

\* C28: work distribution. Under every interleaving of the workers on the
\* shared work queue: the queue is filled with every selected pair once and
\* then one sentinel a worker; every take removes the head and gives it to
\* one waiting worker, so a pair is taken once, by one worker, which holds
\* one pair at a time; a sentinel is only taken when no pair is left in the
\* queue; every worker takes one sentinel; and when the run returns, the
\* queue is exhausted and every worker has exited.
WorkDistribution ==
    [][/\ (run.pc # "parallel" /\ run'.pc = "parallel") =>
            /\ QueuedPairs(run') = SelectedPairs
            /\ Len(run'.work_queue)
                = Cardinality(SelectedPairs) + run'.effective_workers
       /\ run'.pc = "parallel" => WellDistributed(run')
       /\ (run.pc = "parallel" /\ run'.pc = "parallel") =>
            (run'.work_queue = run.work_queue \/ TakenByOne)
       /\ (run.pc = "parallel" /\ run'.pc = "summaries") =>
            /\ run.work_queue = << >>
            /\ \A w \in 1..run.effective_workers : run.worker[w].pc = "exited"
      ]_vars

\* a parallel run of two workers on two pairs is over: the queue is empty,
\* both workers have exited, and the summaries of both pairs have arrived
WorkDistributionWitness ==
    /\ run.pc = "parallel"
    /\ run.effective_workers = 2
    /\ Cardinality(SelectedPairs) = 2
    /\ run.work_queue = << >>
    /\ \A w \in 1..2 : run.worker[w].pc = "exited"
    /\ Len(run.summaries) = 2

-----------------------------------------------------------------------------
(* Properties of the bounded result channel *)

\* a parallel run with a bounded result queue in which process_pair raises
\* on no pair
Backpressured(id) ==
    /\ run.run_id = id
    /\ run.pc = "parallel"
    /\ run.worker_queue_size >= 1
    /\ \A p \in DOMAIN run.effects :
            run.effects[p][Len(run.effects[p])].kind # "raise"

\* the worker has a message to put and the result queue is full
BlockedOnPut(w) ==
    /\ run.worker[w].pc = "put"
    /\ ~result_queue_has_room(run)

\* the writer is in its loop and its get returns
WriterReceiving ==
    /\ ~writer_loop_over(run)
    /\ run.result_queue # << >>

AllWorkersDone(id) ==
    /\ run.run_id = id
    /\ run.pc = "parallel"
    /\ run.completed_workers = run.effective_workers
    /\ \A w \in 1..run.effective_workers : run.worker[w].pc = "exited"

\* C29: deadlock freedom under backpressure. In a parallel run with a
\* bounded result queue and no failing worker, whenever a worker is blocked
\* on the full queue the writer is receiving; the run leaves its writer loop
\* only when every worker has reported done and exited; and, the processes
\* being scheduled fairly, the run does leave it and completes with exit
\* status 0 and its RunMetadata row written.
NoBackpressureDeadlock ==
    /\ [](\A id \in RunIds :
            (Backpressured(id) /\ \E w \in 1..run.effective_workers : BlockedOnPut(w))
                => WriterReceiving)
    /\ [][\A id \in RunIds :
            (Backpressured(id) /\ run'.pc # "parallel") => AllWorkersDone(id)]_vars
    /\ \A id \in RunIds :
            Backpressured(id) ~> (Ended(id) /\ Exit(id) = 0 /\ MetadataWritten(id))

\* both workers of a run on two pairs are blocked on the full result queue
\* of size 1
NoBackpressureDeadlockWitness ==
    /\ \E id \in RunIds : Backpressured(id)
    /\ run.effective_workers = 2
    /\ run.worker_queue_size = 1
    /\ \A w \in 1..2 : BlockedOnPut(w)

-----------------------------------------------------------------------------
(* Runs on pairs whose rows leave process_pair in more than one batch *)

\* three buckets of one second: a batch of two rows and the forced flush of
\* the third; the second stream ends with a row on which process_pair
\* raises
OrderStreams ==
    {<<Tick(0, 10), Tick(1, 20), Tick(2, 10)>>,
     <<Tick(0, 10), TextTick(1)>>}

OrderSources == UNION {[1..n -> OrderStreams] : n \in 0..MaxPairs}

InitOrder ==
    /\ cfg \in {c \in RunConfigs : c.bin_seconds = 1}
    /\ source \in OrderSources
    /\ run = IdleRun
    /\ store = EmptyStore
    /\ ticks = << >>
    /\ profile = None
    /\ pp = [status |-> "none"]

SpecOrder == InitOrder /\ [][NextRun]_vars

\* C30: per-pair ordering. In sequential and in parallel mode, the rows that
\* the writer has inserted for a pair under a run identifier are in strictly
\* increasing order of bucket_epoch_s, each exactly bin_seconds after the one
\* before.
PerPairOrdering ==
    \A id \in RunIds, p \in PairIds :
        LET inserted == store.cleansed_market[<<id, p>>]
        IN  \A k \in 1..(Len(inserted) - 1) :
                /\ inserted[k].bucket_epoch_s < inserted[k + 1].bucket_epoch_s
                /\ inserted[k + 1].bucket_epoch_s
                    = inserted[k].bucket_epoch_s + cfg.bin_seconds

\* a parallel run has inserted both batches of the second pair of the work
\* queue and only the first batch of the first pair: the rows of the two pairs
\* are inserted in an interleaving that is not the order of the queue
PerPairOrderingWitness ==
    /\ run.pc = "parallel"
    /\ Len(run.pair_profiles) = 2
    /\ Len(store.cleansed_market[<<run.run_id, run.pair_profiles[1].pair>>]) = 2
    /\ Len(store.cleansed_market[<<run.run_id, run.pair_profiles[2].pair>>]) = 3

-----------------------------------------------------------------------------
(* Properties of the cancellation of a parallel run *)

\* the writer receives a worker_error in this step
ReceivesWorkerError ==
    /\ run.pc = "parallel"
    /\ ~writer_loop_over(run)
    /\ run.result_queue # << >>
    /\ Head(run.result_queue).kind = "worker_error"
    /\ run'.pc # "parallel"

\* C31: cancellation. The step in which the writer receives a worker_error
\* inserts nothing, drops the messages still queued, leaves no worker
\* running and ends the run with a non-zero exit status; a run that has
\* ended so has no PairSummary, DQSummary or RunMetadata row under its run
\* identifier, and no later step changes its Bin rows.
Cancellation ==
    [][/\ ReceivesWorkerError =>
            /\ store' = store
            /\ run'.result_queue = << >>
            /\ \A w \in 1..MaxWorkers : run'.worker[w].pc \notin {"get", "put"}
            /\ FailedInParallel(run.run_id)'
       /\ \A id \in RunIds :
            FailedInParallel(id)' =>
                /\ PairSummaryTableOf(store', id) = {}
                /\ DQSummaryTableOf(store', id) = << >>
                /\ ~MetadataWritten(id)'
                /\ FailedInParallel(id) =>
                        BinTableOf(store', id) = BinTableOf(store, id)
      ]_vars

\* a parallel run with data-quality summaries was cancelled after rows of
\* one of its two pairs had been inserted
CancellationWitness ==
    \E id \in RunIds :
        /\ FailedInParallel(id)
        /\ \E p, q \in PairIds :
            /\ store.cleansed_market[<<id, p>>] # << >>
            /\ store.cleansed_market[<<id, q>>] = << >>
            /\ q \in SelectedPairs
        /\ run.enable_dq
        /\ run.pc = "failed"

-----------------------------------------------------------------------------
(* Properties of the rows that a failed run leaves *)

\* C32: after a failed run, every pair that has a Bin row under the run
\* identifier has the rows of its complete dense bucket range, and the pair on
\* which process_pair raised has none.
FailedRunLeavesCompletePairs ==
    \A id \in RunIds :
        (Ended(id) /\ Exit(id) # 0) =>
            \A p \in PairIds :
                store.cleansed_market[<<id, p>>] # << >> =>
                    /\ p \in SelectedPairs
                    /\ p \notin RaisingPairs
                    /\ {row.bucket_epoch_s : row \in BinRowsOf(id, p)} = DenseBuckets(p)

\* a run has failed on its only pair and the first batch of that pair is in
\* the output DB
FailedRunLeavesCompletePairsWitness ==
    \E id \in RunIds :
        /\ Ended(id)
        /\ Exit(id) # 0
        /\ SelectedPairs = {1}
        /\ RaisingPairs = {1}
        /\ Len(store.cleansed_market[<<id, 1>>]) = 2

-----------------------------------------------------------------------------
(* The outlier returns of pairs with returns at, above and below the
   threshold *)

\* the market_ticks rows of a pair: a return of 3/10 over a bucket that is
\* filled (returns of 3/20 and 3/23 with the filled price between); a return
\* of exactly 1/5; a price of zero before a price; a return of 1
OutlierStreams ==
    {<<Tick(0, 10), Tick(2, 13)>>,
     <<Tick(0, 10), Tick(1, 12)>>,
     <<MarketTick(Some(0), Some(0), TRUE, None, None), Tick(1, 10)>>,
     <<Tick(0, 10), Tick(1, 20)>>}

OutlierSources == UNION {[1..n -> OutlierStreams] : n \in 0..MaxPairs}

InitOutlier ==
    /\ cfg \in {c \in RunConfigs : c.bin_seconds = 1}
    /\ source \in OutlierSources
    /\ run = [IdleRun EXCEPT !.enable_dq = TRUE]
    /\ store = EmptyStore
    /\ ticks = << >>
    /\ profile = None
    /\ pp = [status |-> "none"]

SpecOutlier == InitOutlier /\ [][NextAudit]_vars

-----------------------------------------------------------------------------
(* Properties of the size of the result channel *)

\* the worker is in result_queue.put with a message and the queue is full
PutsToFullChannel(w) ==
    /\ run.pc = "parallel"
    /\ run.worker[w].pc = "put"
    /\ Head(run.worker[w].todo).kind # "raise"
    /\ ~result_queue_has_room(run)

\* C34, as stated: for every accepted --worker-queue-size, the messages put
\* on the result channel and not yet received are never more than the
\* configured size.
BoundedChannel ==
    run.pc = "parallel" => Len(run.result_queue) <= run.worker_queue_size

\* C34, amended: with --worker-queue-size >= 1 the messages put on the
\* result channel and not yet received are never more than the size, and a
\* worker that puts to the full channel does not move before the writer has
\* received a message; with --worker-queue-size 0 the channel has no bound.
BoundedChannelUnlessZero ==
    [][/\ (run'.pc = "parallel" /\ run'.worker_queue_size >= 1) =>
            Len(run'.result_queue) <= run'.worker_queue_size
       /\ \A w \in 1..MaxWorkers :
            (PutsToFullChannel(w) /\ run'.pc = "parallel") =>
                /\ run'.worker[w] = run.worker[w]
                /\ PutsToFullChannel(w)' \/ run'.result_queue = Tail(run.result_queue)
      ]_vars

\* a worker puts to the full channel of size 1 while the other worker waits
\* for work
BoundedChannelWitness ==
    /\ run.worker_queue_size = 1
    /\ Len(run.result_queue) = 1
    /\ PutsToFullChannel(1)
    /\ run.worker[2].pc = "get"

-----------------------------------------------------------------------------
(* floor_epoch on epochs before and after 1970, alone and in process_pair *)

MaxFloorEpoch == 12
FloorBinSeconds == {1, 2, 3, 5, 7}

\* the epochs of the streams of process_pair are moved before 1970 by this
EpochShift == 3

Shifted(stream) ==
    [i \in 1..Len(stream) |->
        IF IsNone(stream[i].ts_epoch_s) THEN stream[i]
        ELSE [stream[i] EXCEPT !.ts_epoch_s = Some(Val(@) - EpochShift)]]

\* a call floor_epoch(epoch_s, bin_seconds) that has not returned
FloorCall(e, b) ==
    [status |-> "floor_epoch", epoch_s |-> e, bin_seconds |-> b, result |-> None]

\* either a call of floor_epoch on its own, or process_pair on an ordered
\* stream that starts before 1970
InitAlign ==
    /\ cfg \in RunConfigs
    /\ source = NoSource
    /\ run = NoRun
    /\ store = NoStore
    /\ \/ /\ ticks = << >>
          /\ profile = None
          /\ pp \in {FloorCall(e, b) :
                        e \in (0 - MaxFloorEpoch)..MaxFloorEpoch,
                        b \in FloorBinSeconds}
       \/ /\ ticks \in {Shifted(s) : s \in
                {t \in Streams :
                    Val(load_pair_profile(t)).min_epoch_s < cfg.bin_seconds}}
          /\ profile = Val(load_pair_profile(ticks))
          /\ pp = process_pair_init(profile, cfg)

\* return (epoch_s // bin_seconds) * bin_seconds
FloorEpoch ==
    /\ pp.status = "floor_epoch"
    /\ pp' = [pp EXCEPT !.status = "floored",
                        !.result = Some(floor_epoch(pp.epoch_s, pp.bin_seconds))]
    /\ UNCHANGED <<ticks, cfg, profile, source, run, store>>

NextAlign ==
    \/ FloorEpoch
    \/ SkipTick
    \/ RaiseOnTick
    \/ FinalizeBeforeTick
    \/ AccumulateTick
    \/ FinalizeAtEnd
    \/ FlushAndReturn

SpecAlign == InitAlign /\ [][NextAlign]_vars

\* the ticks of the stream, read so far or not, whose epoch is in the
\* bin_seconds from b on
TicksFrom(b) ==
    {i \in ParseableIdx(ticks) : b <= EpochOf(i) /\ EpochOf(i) < b + cfg.bin_seconds}

\* C35: bin alignment. floor_epoch(e, bin_seconds) of every epoch e, negative
\* or not, and every bin_seconds > 0 is a multiple of bin_seconds, at most e
\* and more than e - bin_seconds; and every row finalized by process_pair on
\* an ordered stream has a bucket_epoch_s that is a multiple of bin_seconds
\* and counts exactly the ticks whose epoch is in the bin_seconds from
\* bucket_epoch_s on, that is, whose floor_epoch is bucket_epoch_s.
BinAlignment ==
    /\ pp.status = "floored" =>
        LET f == Val(pp.result)
        IN  /\ \E k \in (0 - MaxFloorEpoch - 1)..(MaxFloorEpoch + 1) :
                    f = k * pp.bin_seconds
            /\ f <= pp.epoch_s
            /\ pp.epoch_s < f + pp.bin_seconds
    /\ pp.status \in {"running", "raised", "returned"} =>
        /\ \A r \in RowSet :
            /\ \E k \in (0 - EpochShift - 1)..(MaxEpoch + 1) :
                    r.bucket_epoch_s = k * cfg.bin_seconds
            /\ r.tick_count_in_bin = Cardinality(TicksFrom(r.bucket_epoch_s))
        /\ pp.current_bin_tick_count
            = Cardinality({i \in TicksFrom(pp.current_bin_epoch_s) : i < pp.next_row})

\* process_pair has returned on a stream with two ticks at epoch -3 and
\* bins of 2 seconds: both are counted in the bucket of epoch -4
BinAlignmentWitness ==
    /\ pp.status = "returned"
    /\ cfg.bin_seconds = 2
    /\ Cardinality({i \in ParseableIdx(ticks) : EpochOf(i) = -3}) = 2
    /\ \E r \in RowSet : r.bucket_epoch_s = -4 /\ r.tick_count_in_bin = 2

-----------------------------------------------------------------------------
(* Properties of the first and the last bucket of a pair *)

\* the cursor loop of process_pair is over and the function has not returned
InEndSweep ==
    /\ pp.status = "running"
    /\ pp.next_row > Len(ticks)

\* C36: on an ordered stream that agrees with its profile, the bucket of
\* min_epoch and the bucket of max_epoch are finalized as observed; every row
\* that is not observed has an observation before it, and process_pair holds a
\* last known price from the first finalized bucket on; a missing row is
\* older than max_forward_fill_s; and the sweep after the last row of the
\* cursor finalizes one bucket, the one of max_epoch, which has ticks.
ObservedEnds ==
    LET first == BucketOf(profile.min_epoch_s)
        last == BucketOf(profile.max_epoch_s)
    IN  /\ \A r \in RowSet :
            /\ r.bucket_epoch_s \in {first, last} => r.fill_method = "observed"
            /\ r.fill_method # "observed" =>
                /\ TicksBefore(r.bucket_epoch_s) # {}
                /\ r.fill_method = "missing" =>
                        PrevAge(r) > cfg.max_forward_fill_s
        /\ (pp.status = "running" /\ RowsSoFar # << >>) => has_last_known(pp)
        /\ InEndSweep =>
            \/ /\ pp.current_bin_epoch_s = last
               /\ pp.current_bin_tick_count > 0
               /\ \A r \in RowSet : r.bucket_epoch_s < last
            \/ /\ pp.current_bin_epoch_s = last + cfg.bin_seconds
               /\ RowsSoFar[Len(RowsSoFar)].bucket_epoch_s = last
        /\ pp.status = "returned" =>
            /\ RowsSoFar[1].bucket_epoch_s = first
            /\ RowsSoFar[Len(RowsSoFar)].bucket_epoch_s = last

\* process_pair has returned on a pair with a missing bucket between its
\* observed first and last bucket
ObservedEndsWitness ==
    /\ pp.status = "returned"
    /\ Len(RowsSoFar) >= 3
    /\ RowsSoFar[1].fill_method = "observed"
    /\ RowsSoFar[Len(RowsSoFar)].fill_method = "observed"
    /\ \E r \in RowSet : r.fill_method = "missing"

-----------------------------------------------------------------------------
(* Properties of the count of the ticks *)

RECURSIVE SumOfTickCounts(_)
SumOfTickCounts(rows) ==
    IF rows = << >> THEN 0
    ELSE Head(rows).tick_count_in_bin + SumOfTickCounts(Tail(rows))

\* the rows of the cursor read so far whose timestamp parses
TicksRead == {i \in ParseableIdx(ticks) : i < pp.next_row}

AccumulatorEmpty(s) ==
    /\ s.current_bin_tick_count = 0
    /\ IsNone(s.current_bin_last_price)
    /\ IsNone(s.current_bin_last_ts_utc)
    /\ IsNone(s.current_bin_last_ts_epoch_s)

\* C37: tick conservation. The tick counts of the rows finalized so far and
\* of the current bucket add up to the number of rows read so far whose
\* timestamp parses; when process_pair returns, the tick counts of the rows
\* handed to emit_rows add up to the number of rows of the stream whose
\* timestamp parses; and every step that finalizes a bucket leaves the
\* accumulator (tick count, last price, last timestamp) empty.
TickConservation ==
    /\ [](/\ SumOfTickCounts(RowsSoFar) + pp.current_bin_tick_count
                = Cardinality(TicksRead)
          /\ pp.status = "returned" =>
                /\ SumOfTickCounts(Flatten(pp.emitted))
                    = Cardinality(ParseableIdx(ticks))
                /\ pp.current_bin_tick_count = 0)
    /\ [][Len(RowsSoFar)' > Len(RowsSoFar) =>
            /\ Len(RowsSoFar)' = Len(RowsSoFar) + 1
            /\ AccumulatorEmpty(pp')
            /\ (RowsSoFar')[Len(RowsSoFar) + 1].tick_count_in_bin
                = pp.current_bin_tick_count]_vars

\* process_pair has returned on a stream of three rows, one of them with a
\* timestamp that does not parse, the two others counted in one row
TickConservationWitness ==
    /\ pp.status = "returned"
    /\ Len(ticks) = 3
    /\ Cardinality(ParseableIdx(ticks)) = 2
    /\ \E r \in RowSet : r.tick_count_in_bin = 2

-----------------------------------------------------------------------------
(* Runs on pairs with rows of every fill method *)

\* with bins of 2 seconds and max_forward_fill_s = 2: an observed, a
\* forward_fill, a missing and an observed row; an observed, an interpolation
\* and an observed row
TotalsStreams ==
    {<<Tick(0, 10), Tick(6, 20)>>,
     <<Tick(1, 10), Tick(4, 20)>>}

TotalsSources == UNION {[1..n -> TotalsStreams] : n \in 0..MaxPairs}

\* --insert-batch-size: the rows of a pair go in one batch
TotalsBatchSize == 4

InitTotals ==
    /\ cfg \in {[c EXCEPT !.emit_batch_size = TotalsBatchSize] :
                    c \in {d \in RunConfigs : d.bin_seconds = 2}}
    /\ source \in TotalsSources
    /\ run = IdleRun
    /\ store = EmptyStore
    /\ ticks = << >>
    /\ profile = None
    /\ pp = [status |-> "none"]

\* main on input DBs on which no pair raises
NextTotals ==
    \/ LaunchEmpty
    \/ LaunchSequential
    \/ SeqProcessPair
    \/ SeqEmitRows
    \/ SeqAppendSummary
    \/ SeqLoopEnd
    \/ LaunchParallel
    \/ \E w \in 1..MaxWorkers : WorkerGet(w)
    \/ \E w \in 1..MaxWorkers : WorkerPut(w)
    \/ WriterRows
    \/ WriterSummary
    \/ WriterDone
    \/ ParallelReturn
    \/ InsertPairSummaries
    \/ InsertRunMetadata

SpecTotals == InitTotals /\ [][NextTotals]_vars

\* the Bin rows stored under a run identifier for the pairs 1..p, all of them
\* or those of one fill method
RECURSIVE StoredRows(_, _, _)
StoredRows(id, p, methods) ==
    IF p = 0 THEN 0
    ELSE Cardinality({k \in 1..Len(store.cleansed_market[<<id, p>>]) :
            store.cleansed_market[<<id, p>>][k].fill_method \in methods})
         + StoredRows(id, p - 1, methods)

\* the PairSummary rows stored under a run identifier
StoredPairSummaries(id) ==
    BagCardinality(
        [x \in {y \in BagToSet(store.cleansing_pair_summary) : y.run_id = id}
            |-> CopiesIn(x, store.cleansing_pair_summary)])

\* C38: on every run that has completed, sequential or parallel, the
\* RunMetadata row agrees with the output DB: total_pairs is the number of
\* selected pairs and of PairSummary rows of the run, total_rows the number of
\* Bin rows under the run identifier, observed_rows, forward_fill_rows,
\* interpolation_rows and missing_rows the numbers of those rows with each
\* fill_method, and the four add up to total_rows.
MetadataTotals ==
    \A id \in RunIds :
        (Ended(id) /\ Exit(id) = 0 /\ MetadataWritten(id)) =>
            LET md == Val(store.cleansing_run_metadata[id])
            IN  /\ md.total_pairs = Cardinality(SelectedPairs)
                /\ md.total_pairs = StoredPairSummaries(id)
                /\ md.total_rows = StoredRows(id, MaxPairs, FillMethods)
                /\ md.observed_rows = StoredRows(id, MaxPairs, {"observed"})
                /\ md.forward_fill_rows = StoredRows(id, MaxPairs, {"forward_fill"})
                /\ md.interpolation_rows = StoredRows(id, MaxPairs, {"interpolation"})
                /\ md.missing_rows = StoredRows(id, MaxPairs, {"missing"})
                /\ md.total_rows = md.observed_rows + md.forward_fill_rows
                                    + md.interpolation_rows + md.missing_rows

\* a parallel run on two pairs has completed with rows of each of the four
\* fill methods
MetadataTotalsWitness ==
    \E id \in RunIds :
        /\ Ended(id)
        /\ Exit(id) = 0
        /\ MetadataWritten(id)
        /\ Val(run.outcome[id]).workers > 1
        /\ Val(store.cleansing_run_metadata[id]).total_pairs = 2
        /\ Val(store.cleansing_run_metadata[id]).total_rows = 7
        /\ Val(store.cleansing_run_metadata[id]).forward_fill_rows = 1
        /\ Val(store.cleansing_run_metadata[id]).interpolation_rows = 1
        /\ Val(store.cleansing_run_metadata[id]).missing_rows = 1

-----------------------------------------------------------------------------
(* Properties of the epochs in the sweep *)

\* the step finalizes a bucket without ticks while a last known observation
\* exists
FinalizesEmptyBucket ==
    /\ pp.status = "running"
    /\ Len(RowsSoFar)' = Len(RowsSoFar) + 1
    /\ pp.current_bin_tick_count = 0
    /\ has_last_known(pp)

\* the fraction p is between the integers a and b, the bounds included
FracBetween(p, a, b) ==
    /\ p[2] > 0
    /\ Min(a, b) * p[2] <= p[1]
    /\ p[1] <= Max(a, b) * p[2]

\* C39: epoch ordering inside the sweep. A bucket without ticks that is
\* finalized while a last known observation exists starts after the epoch of
\* that observation, and when its row is an interpolation the next tick is
\* after the start of the bucket; hence a forward_fill or interpolation row
\* has an age of 1 second or more, and an interpolated row lies strictly
\* between the epochs of the tick before and the tick after (a weight
\* strictly between 0 and 1 over a divisor that is not 0) and its price
\* between their prices.
SweepEpochOrdering ==
    /\ [][FinalizesEmptyBucket =>
            LET row == (RowsSoFar')[Len(RowsSoFar) + 1]
            IN  /\ Val(pp.last_known_ts_epoch_s) < pp.current_bin_epoch_s
                /\ row.bucket_epoch_s = pp.current_bin_epoch_s
                /\ row.fill_method = "interpolation" =>
                    /\ pp.next_row <= Len(ticks)
                    /\ pp.current_bin_epoch_s < Val(ticks[pp.next_row].ts_epoch_s)
                    /\ Val(pp.last_known_ts_epoch_s)
                        < Val(ticks[pp.next_row].ts_epoch_s)]_vars
    /\ [](\A r \in RowSet :
            /\ r.fill_method \in {"forward_fill", "interpolation"} =>
                    Val(r.age_seconds) >= 1
            /\ r.fill_method = "interpolation" =>
                LET b == r.bucket_epoch_s
                    i0 == LastOf(TicksBefore(b))
                    i1 == FirstOf(TicksAfter(b))
                IN  /\ 0 < b - EpochOf(i0)
                    /\ b - EpochOf(i0) < EpochOf(i1) - EpochOf(i0)
                    /\ FracBetween(Val(r.price), ticks[i0].effective_price,
                                   ticks[i1].effective_price))

\* an interpolated row one second after a tick at 10 and two seconds before
\* a tick at 20: its price is 40/3
SweepEpochOrderingWitness ==
    \E r \in RowSet :
        /\ r.fill_method = "interpolation"
        /\ r.age_seconds = Some(1)
        /\ Val(r.price)[1] * 3 = 40 * Val(r.price)[2]
        /\ EpochOf(FirstOf(TicksAfter(r.bucket_epoch_s))) = r.bucket_epoch_s + 2

-----------------------------------------------------------------------------
(* Properties of the messages of the parallel mode *)

\* the rows that process_pair hands to emit_rows for a pair of the run, batch
\* after batch
RECURSIVE RowsOfMessages(_)
RowsOfMessages(messages) ==
    IF messages = << >> THEN << >>
    ELSE (IF Head(messages).kind = "rows" THEN Head(messages).body ELSE << >>)
         \o RowsOfMessages(Tail(messages))

\* the writer has received worker_done from every worker of the run
EveryWorkerDone ==
    /\ run.pc = "parallel"
    /\ run.completed_workers = run.effective_workers

\* C40: no message is lost in parallel mode. When the writer has received
\* worker_done from every worker, no message is in the result queue or still
\* to be put, the rows inserted for every selected pair are the rows that
\* process_pair emitted for it, all of them and in their order, and the
\* summaries collected are one for every selected pair.
NoMessageLost ==
    EveryWorkerDone =>
        /\ run.result_queue = << >>
        /\ run.work_queue = << >>
        /\ \A w \in 1..MaxWorkers : run.worker[w].todo = << >>
        /\ \A p \in SelectedPairs :
            /\ store.cleansed_market[<<run.run_id, p>>]
                = RowsOfMessages(run.effects[p])
            /\ Cardinality({k \in 1..Len(run.summaries) :
                                run.summaries[k].pair = p}) = 1
        /\ Len(run.summaries) = Cardinality(SelectedPairs)

\* the writer has received worker_done from both workers of a run on two
\* pairs of two batches each
NoMessageLostWitness ==
    /\ EveryWorkerDone
    /\ run.effective_workers = 2
    /\ Cardinality(SelectedPairs) = 2
    /\ \A p \in SelectedPairs :
            Len(store.cleansed_market[<<run.run_id, p>>]) = 3

====
